---- MODULE Spec2Model ----
(***************************************************************************)
(* FinOpsia: the model persistence layer (src/src/ml/persistence.py) and   *)
(* the balance series builder of the forecaster (src/src/ml/forecaster.py). *)
(*                                                                         *)
(* Callers (threads) run get_model and train_and_save_model against the    *)
(* process-wide dictionary _MODEL_CACHE and the artifact files under       *)
(* MODEL_DIR.  Each action is one step of one call: a step reads or writes *)
(* the shared cache or the artifact directory at most once, so that every  *)
(* interleaving the interpreter can produce between two calls is a         *)
(* behaviour of Spec.  SpecSeq is the same program with a single caller.   *)
(* SpecTrain is a single caller of the forecaster entry points, with       *)
(* forecaster.train_model and build_daily_balance_series run step by step  *)
(* against the account's rows in the database.                             *)
(***************************************************************************)
EXTENDS Naturals, Integers, Sequences, FiniteSets, TLC

\* ---- bounds ----
\* Training runs per key that the model follows.
MaxTrain == 2

\* The concurrent callers, and the single caller of SpecSeq.
Threads == {"t1", "t2"}
SeqThreads == {"t1"}

\* An optional value: <<>> is Python's None, <<v>> is the value v.
None == <<>>
Some(v) == <<v>>

AccountIds == {"a1", "a2"}
\* account_id arguments a caller can pass: None, the empty string, an id.
AccountArgs == {None, Some("")} \cup {Some(a) : a \in AccountIds}
\* df keyword of train_and_save_model: absent, a frame without the category
\* column, a frame without the description column, a labeled frame.
DfArgs == {"absent", "bad_columns", "no_description", "labeled"}
\* The columns of each frame.
DfColumns(df) ==
    IF df = "labeled" THEN {"description", "category", "direction", "amount"}
    ELSE IF df = "bad_columns" THEN {"description", "direction", "amount"}
    ELSE IF df = "no_description" THEN {"category", "direction", "amount"}
    ELSE {}

\* The get_model calls the model issues: <<model_type, account_id>>.  For an
\* unknown model_type ("anomaly" is not in MODEL_POLICY) the code never reads
\* account_id: it takes two values.
GetCalls ==
    ({"categorizer", "forecaster"} \X AccountArgs)
    \cup ({"anomaly"} \X {None, Some("a1")})

\* The well-formed get_model calls that concurrent callers issue.
ConcGetCalls == {<<"categorizer", None>>, <<"forecaster", Some("a1")>>}

\* The train_and_save_model calls: <<model_type, account_id, df>>.  The code
\* reads account_id for the forecaster only, and df for the categorizer only.
TrainCalls ==
    ({"categorizer"} \X {None} \X DfArgs)
    \cup ({"categorizer"} \X {Some("a1")} \X {"labeled"})
    \cup ({"forecaster"} \X AccountArgs \X {"absent"})
    \cup ({"anomaly"} \X {None} \X {"absent", "labeled"})

\* The well-formed train_and_save_model calls that concurrent callers issue.
ConcTrainCalls == {<<"categorizer", None, "labeled">>, <<"forecaster", Some("a1"), "absent">>}

\* A policy table that lets every kind train on a miss.
MODEL_POLICY_AutoTrainAll ==
    [categorizer |-> [lazy_train |-> TRUE, requires |-> {"df"}, scope |-> "global"],
     forecaster  |-> [lazy_train |-> TRUE, requires |-> {"account_id"}, scope |-> "per_account"]]

\* Lines 30-41.
MODEL_POLICY ==
    [categorizer |-> [lazy_train |-> FALSE, requires |-> {"df"}, scope |-> "global"],
     forecaster  |-> [lazy_train |-> TRUE, requires |-> {"account_id"}, scope |-> "per_account"]]

\* Python truthiness of an account_id argument (None and "" are falsy).
Truthy(account_id) == account_id # None /\ account_id # Some("")

\* _model_path(name, account_id), relative to MODEL_DIR.
ModelPath(name, account_id) ==
    IF account_id = None
    THEN name \o ".joblib"
    ELSE name \o "_" \o account_id[1] \o ".joblib"

\* cache_key as get_model and train_and_save_model compute it.
CacheKey(model_type, account_id) ==
    IF model_type = "categorizer"
    THEN "categorizer:global"
    ELSE "forecaster:" \o account_id[1]

\* Lines 93-95: get_model drops an account_id given for the categorizer; the
\* test is the argument's truthiness, so an empty string stays as it is.
NormAccount(model_type, account_id) ==
    IF model_type = "categorizer" /\ Truthy(account_id) THEN None ELSE account_id

\* Lines 173, 180: the account train_and_save_model passes to _model_path.
TrainAccount(model_type, account_id) ==
    IF model_type = "categorizer" THEN None ELSE account_id

CacheKeys == {"categorizer:global"} \cup {"forecaster:" \o a : a \in AccountIds}
Paths == {"categorizer.joblib"} \cup {"forecaster_" \o a \o ".joblib" : a \in AccountIds}

\* A file that joblib.dump has opened (truncated) and not finished writing.
PartialFile == [truncated |-> TRUE]
\* A trained model object: which key it was trained for, by which entry
\* point, and which training run of that key produced it.
Artifact(key, by, n) == [key |-> key, by |-> by, n |-> n]
\* An artifact file left in MODEL_DIR by an earlier process.
Preexisting(p) == [key |-> p, by |-> "earlier_process", n |-> 0]
IsArtifact(x) == "key" \in DOMAIN x

EmptyMap == [k \in {} |-> None]
Put(m, k, v) == (k :> v) @@ m

VARIABLES
    cache,       \* _MODEL_CACHE: cache key -> artifact
    store,       \* files under MODEL_DIR: path -> artifact or PartialFile
    pc,          \* per thread: where its call stands
    args,        \* per thread: the call's entry point and arguments
    local,       \* per thread: cache_key, path, model and the training run
    ret,         \* per thread: the call's outcome and returned value
    trainCount,  \* per cache key: train_model invocations so far
    log,         \* per thread: the accesses the call has made so far, in order
    start,       \* per thread: whether cache and store held the call's key when it began
    ledger,          \* transactions table: the account's rows, ORDER BY txn_date
    account,         \* accounts table: the account's row, or None
    bpc,             \* build_daily_balance_series: where the running call stands
    meta,            \* its local meta, the account row it fetched
    meta_fetches,    \* the fetch_account_metadata calls it made
    lookback_years,  \* its local lookback_years
    txns,            \* its local txns, the window fetched last
    daily_cashflow,  \* its local daily_cashflow
    fetches,         \* the years_back of each fetch_transactions call it made, in order
    bret,            \* what it returned or raised
    fn_call,         \* a call of a function of forecaster, currency or categorizer
    fn_ret           \* what that call returned or raised

\* The variables of the persistence layer, and those of the series builder.
pvars == <<cache, store, pc, args, local, ret, trainCount, log, start>>
mvars == <<meta, meta_fetches>>
bvars == <<ledger, account, bpc, meta, meta_fetches, lookback_years, txns, daily_cashflow,
           fetches, bret>>
\* The variables of a call of one of the stateless functions.
fvars == <<fn_call, fn_ret>>
vars == <<cache, store, pc, args, local, ret, trainCount, log, start,
          ledger, account, bpc, meta, meta_fetches, lookback_years, txns, daily_cashflow,
          fetches, bret, fn_call, fn_ret>>

NoArgs == [op |-> "none", model_type |-> "", account_id |-> None, df |-> "absent"]
NoLocal == [cache_key |-> "", path |-> "", model |-> None, run |-> 0]
NoRet == [outcome |-> "pending", value |-> None]
\* No call, or a call that has no key (its arguments were refused).
NoStart == [cached |-> FALSE, stored |-> "no_key"]

\* Whether the cache holds key, and whether the store holds a whole artifact,
\* a truncated file or nothing at path.
Snapshot(key, path) ==
    [cached |-> key \in DOMAIN cache,
     stored |-> IF path \notin DOMAIN store THEN "absent"
                ELSE IF IsArtifact(store[path]) THEN "artifact" ELSE "partial"]

\* A new process: the cache is empty, and MODEL_DIR holds the artifacts that
\* earlier processes saved, if any, among paths.
InitWith(paths) ==
    /\ cache = EmptyMap
    /\ \E present \in SUBSET paths : store = [p \in present |-> Preexisting(p)]
    /\ pc = [t \in Threads |-> "idle"]
    /\ args = [t \in Threads |-> NoArgs]
    /\ local = [t \in Threads |-> NoLocal]
    /\ ret = [t \in Threads |-> NoRet]
    /\ trainCount = [k \in CacheKeys |-> 0]
    /\ log = [t \in Threads |-> <<>>]
    /\ start = [t \in Threads |-> NoStart]

\* Spec and SpecSeq leave the training data out: train_model is one step there.
NoTrainingData ==
    /\ ledger = <<>>
    /\ account = None
    /\ bpc = "idle"
    /\ meta = None
    /\ meta_fetches = 0
    /\ lookback_years = 0
    /\ txns = <<>>
    /\ daily_cashflow = <<>>
    /\ fetches = <<>>
    /\ bret = NoRet

\* No stateless function is being called.
NoCall == [fn |-> "none"]
NoFunctionCall ==
    /\ fn_call = NoCall
    /\ fn_ret = NoRet

Init ==
    /\ InitWith({ModelPath(c[1], c[2]) : c \in ConcGetCalls})
    /\ NoTrainingData
    /\ NoFunctionCall
InitSeq == InitWith(Paths) /\ NoTrainingData /\ NoFunctionCall

\* Calls on key k that have not reached their train_model call yet and can.
MayStillTrain(k) ==
    {u \in Threads : local[u].cache_key = k /\ pc[u] \in {"cache_check", "disk_check", "policy"}}

\* The model stops issuing calls that could start training run MaxTrain + 1.
TrainBudget(k) == trainCount[k] + Cardinality(MayStillTrain(k)) < MaxTrain

\* The cache lookup always misses.
CacheHit_Never(key) == FALSE
\* Line 104: cache_key in _MODEL_CACHE.
CacheHit(key) == key \in DOMAIN cache
\* The existence check looks at a path that is never there.
FileExists_Never(path) == FALSE
\* Line 111: path.exists().
FileExists(path) == path \in DOMAIN store
\* The trained or loaded model is returned without being cached.
CacheInsert_Dropped(key, model) == cache

\* The model is cached only when the key has no entry yet (dict.setdefault).
CacheInsert_KeepExisting(key, model) ==
    IF key \in DOMAIN cache THEN cache ELSE Put(cache, key, model)

\* Every model is cached under the one key of the categorizer.
CacheInsert_SharedKey(key, model) == Put(cache, "categorizer:global", model)

\* Lines 113, 135, 184: _MODEL_CACHE[cache_key] = model.
CacheInsert(key, model) == Put(cache, key, model)
\* One process-wide lock held from before train_model until the cache is set.
CanStartTraining_GlobalLock(t) ==
    \A u \in Threads \ {t} : pc[u] \notin {"training", "save", "saving", "cache_put"}

\* Lines 130-132 and 165-178 take no lock and write no claim marker before
\* train_model is called: a call never waits for another one.
CanStartTraining(t) == TRUE

\* Without the membership test of lines 84-85 the lookup MODEL_POLICY[model_type]
\* of line 87 raises KeyError for an unknown kind.
GetModelArgError_NoTypeCheck(model_type, account_id) ==
    IF model_type \notin DOMAIN MODEL_POLICY THEN "KeyError"
    ELSE IF model_type = "forecaster" /\ ~Truthy(account_id) THEN "ValueError"
    ELSE "none"

\* Lines 84-91: what get_model raises for its arguments before it reads anything.
GetModelArgError(model_type, account_id) ==
    IF model_type \notin DOMAIN MODEL_POLICY THEN "ValueError"
    ELSE IF model_type = "forecaster" /\ ~Truthy(account_id) THEN "ValueError"
    ELSE "none"

\* Lines 160-177: what train_and_save_model raises before it trains.
TrainArgError(model_type, account_id, df) ==
    IF model_type \notin DOMAIN MODEL_POLICY THEN "ValueError"
    ELSE IF model_type = "categorizer" /\ df = "absent" THEN "ValueError"
    ELSE IF model_type = "forecaster" /\ ~Truthy(account_id) THEN "ValueError"
    ELSE "none"

\* Every exception reaches the caller wrapped in one generic error.
Raise_Wrapped(t, exc) == ret' = [ret EXCEPT ![t] = [outcome |-> "RuntimeError", value |-> None]]
\* The exception leaves the call as it was raised: persistence.py has no
\* handler around its train_model calls, and _save_model re-raises (line 196).
Raise(t, exc) == ret' = [ret EXCEPT ![t] = [outcome |-> exc, value |-> None]]
Result(t, how, m) == ret' = [ret EXCEPT ![t] = [outcome |-> how, value |-> m]]
Goto(t, label) == pc' = [pc EXCEPT ![t] = label]
Logged(t, accesses) == log' = [log EXCEPT ![t] = @ \o accesses]

\* ---- get_model ----

\* Lines 84-101: argument validation and the cache key; no shared state read.
GetModelCall(t, model_type, account_id) ==
    /\ pc[t] = "idle"
    /\ args' = [args EXCEPT ![t] = [op |-> "get_model", model_type |-> model_type,
                                    account_id |-> account_id, df |-> "absent"]]
    /\ IF GetModelArgError(model_type, account_id) # "none"
       THEN /\ Raise(t, GetModelArgError(model_type, account_id))
            /\ Goto(t, "done")
            /\ UNCHANGED <<local, start>>
       ELSE /\ LET acct == NormAccount(model_type, account_id)
                   key == CacheKey(model_type, acct)
               IN /\ CacheHit(key) \/ TrainBudget(key)
                  /\ start' = [start EXCEPT ![t] = Snapshot(key, ModelPath(model_type, acct))]
                  /\ local' = [local EXCEPT ![t] = [cache_key |-> key, path |-> "",
                                                    model |-> None, run |-> 0]]
            /\ Goto(t, "cache_check")
            /\ UNCHANGED ret
    /\ UNCHANGED <<cache, store, trainCount, log>>

\* Line 104: cache_key in _MODEL_CACHE.
GetModelCacheCheck(t) ==
    /\ pc[t] = "cache_check"
    /\ Logged(t, <<"cache_contains">>)
    /\ IF CacheHit(local[t].cache_key)
       THEN /\ Goto(t, "cache_read")
            /\ UNCHANGED local
       ELSE \* line 108: path = _model_path(model_type, account_id)
            /\ local' = [local EXCEPT ![t].path =
                            ModelPath(args[t].model_type,
                                      NormAccount(args[t].model_type, args[t].account_id))]
            /\ Goto(t, "disk_check")
    /\ UNCHANGED <<cache, store, args, ret, trainCount, start>>

\* Line 106: return _MODEL_CACHE[cache_key].
GetModelCacheRead(t) ==
    /\ pc[t] = "cache_read"
    /\ Result(t, "Cached", Some(cache[local[t].cache_key]))
    /\ Logged(t, <<"cache_get">>)
    /\ Goto(t, "done")
    /\ UNCHANGED <<cache, store, args, local, trainCount, start>>

\* Line 111: path.exists(); a file being written exists.
GetModelDiskCheck(t) ==
    /\ pc[t] = "disk_check"
    /\ Logged(t, <<"store_exists">>)
    /\ IF FileExists(local[t].path)
       THEN Goto(t, "disk_load")
       ELSE Goto(t, "policy")
    /\ UNCHANGED <<cache, store, args, local, ret, trainCount, start>>

\* Line 112: joblib.load(path); a truncated file does not unpickle.
GetModelDiskLoad(t) ==
    /\ pc[t] = "disk_load"
    /\ Logged(t, <<"store_load">>)
    /\ IF IsArtifact(store[local[t].path])
       THEN /\ local' = [local EXCEPT ![t].model = Some(store[local[t].path])]
            /\ Goto(t, "load_cache")
            /\ UNCHANGED ret
       ELSE /\ Raise(t, "UnpicklingError")
            /\ Goto(t, "done")
            /\ UNCHANGED local
    /\ UNCHANGED <<cache, store, args, trainCount, start>>

\* Lines 113-115: _MODEL_CACHE[cache_key] = model; return model.
GetModelLoadCache(t) ==
    /\ pc[t] = "load_cache"
    /\ cache' = CacheInsert(local[t].cache_key, local[t].model[1])
    /\ Logged(t, <<"cache_set">>)
    /\ Result(t, "Loaded", local[t].model)
    /\ Goto(t, "done")
    /\ UNCHANGED <<store, args, local, trainCount, start>>

\* The policy flag is not consulted: every kind trains on a miss.
LazyTrain_Always(model_type) == TRUE

\* Line 118: policy["lazy_train"] of the kind.
LazyTrain(model_type) == MODEL_POLICY[model_type].lazy_train

\* Lines 118-132: refuse, or call forecaster.train_model(account_id).
GetModelPolicy(t) ==
    /\ pc[t] = "policy"
    /\ IF ~LazyTrain(args[t].model_type)
       THEN /\ Raise(t, "ModelNotFoundError")
            /\ Goto(t, "done")
            /\ UNCHANGED <<local, trainCount, log>>
       ELSE /\ CanStartTraining(t)
            /\ trainCount' = [trainCount EXCEPT ![local[t].cache_key] = @ + 1]
            /\ local' = [local EXCEPT ![t].run = trainCount[local[t].cache_key] + 1]
            /\ Logged(t, <<"train">>)
            /\ Goto(t, "training")
            /\ UNCHANGED ret
    /\ UNCHANGED <<cache, store, args, start>>

\* ---- train_and_save_model ----

\* Lines 160-180: argument validation, then the kind's train_model is called.
TrainAndSaveCall(t, model_type, account_id, df) ==
    /\ pc[t] = "idle"
    /\ args' = [args EXCEPT ![t] = [op |-> "train_and_save_model", model_type |-> model_type,
                                    account_id |-> account_id, df |-> df]]
    /\ IF TrainArgError(model_type, account_id, df) # "none"
       THEN /\ Raise(t, TrainArgError(model_type, account_id, df))
            /\ Goto(t, "done")
            /\ UNCHANGED <<local, trainCount, log, start>>
       ELSE /\ LET acct == TrainAccount(model_type, account_id)
                   key == CacheKey(model_type, acct)
               IN /\ TrainBudget(key)
                  /\ CanStartTraining(t)
                  /\ start' = [start EXCEPT ![t] = Snapshot(key, ModelPath(model_type, acct))]
                  /\ local' = [local EXCEPT ![t] = [cache_key |-> key,
                                                    path |-> ModelPath(model_type, acct),
                                                    model |-> None,
                                                    run |-> trainCount[key] + 1]]
                  /\ trainCount' = [trainCount EXCEPT ![key] = @ + 1]
            /\ Logged(t, <<"train">>)
            /\ Goto(t, "training")
            /\ UNCHANGED ret
    /\ UNCHANGED <<cache, store>>

\* Any frame is accepted for training.
RequiredColumns_None == {}

\* categorizer.py line 77: required = {"description", "category"}.
RequiredColumns == {"description", "category"}

\* categorizer.py lines 77-97: train_model raises ValueError unless the frame
\* has the required columns, and fits a model otherwise.
CategorizerTrain(df) ==
    IF RequiredColumns \subseteq DfColumns(df) THEN "ok" ELSE "ValueError"

\* What the running train_model call can end with: the outcome of
\* categorizer.train_model on the frame; forecaster.train_model
\* (forecaster.py 95-114) raises InsufficientDataError when the account's
\* history is too short.
TrainOutcomes(t) ==
    IF args[t].op = "train_and_save_model" /\ args[t].model_type = "categorizer"
    THEN {CategorizerTrain(args[t].df)}
    ELSE {"ok", "InsufficientDataError"}

\* The train_model call returns a new model object or raises.
TrainEnd(t) ==
    /\ pc[t] = "training"
    /\ \E outcome \in TrainOutcomes(t) :
          IF outcome = "ok"
          THEN /\ local' = [local EXCEPT
                              ![t].model = Some(Artifact(local[t].cache_key, args[t].op, local[t].run))]
               /\ Goto(t, "save")
               /\ UNCHANGED ret
          ELSE /\ Raise(t, outcome)
               /\ Goto(t, "done")
               /\ UNCHANGED local
    /\ UNCHANGED <<cache, store, args, trainCount, log, start>>

\* ---- _save_model ----

\* The model is cached before it is saved.
SaveBegin_CacheFirst(t) ==
    /\ pc[t] = "save"
    /\ \/ /\ store' = Put(store, local[t].path, PartialFile)
          /\ cache' = CacheInsert(local[t].cache_key, local[t].model[1])
          /\ Logged(t, <<"cache_set", "store_dump">>)
          /\ Goto(t, "saving")
          /\ UNCHANGED ret
       \/ /\ Raise(t, "OSError")
          /\ Goto(t, "done")
          /\ UNCHANGED <<cache, store, log>>
    /\ UNCHANGED <<args, local, trainCount, start>>

\* Line 192, joblib.dump(model, path) opens path for writing: the file now
\* exists and is truncated.  The open can fail and leave the directory as it was.
SaveBegin(t) ==
    /\ pc[t] = "save"
    /\ \/ /\ store' = Put(store, local[t].path, PartialFile)
          /\ Logged(t, <<"store_dump">>)
          /\ Goto(t, "saving")
          /\ UNCHANGED ret
       \/ /\ Raise(t, "OSError")
          /\ Goto(t, "done")
          /\ UNCHANGED <<store, log>>
    /\ UNCHANGED <<cache, args, local, trainCount, start>>

\* Another call is still writing the same file.
OtherWriter(t) ==
    \E u \in Threads \ {t} : pc[u] = "saving" /\ local[u].path = local[t].path

\* Line 192, joblib.dump finishes: the file holds the whole model unless another
\* writer still has it open truncated.  The write can fail midway (line 194-196
\* re-raises) and leave the truncated file behind.
SaveEnd(t) ==
    /\ pc[t] = "saving"
    /\ \/ /\ store' = Put(store, local[t].path,
                          IF OtherWriter(t) THEN PartialFile ELSE local[t].model[1])
          /\ Goto(t, "cache_put")
          /\ UNCHANGED ret
       \/ /\ Raise(t, "OSError")
          /\ Goto(t, "done")
          /\ UNCHANGED store
    /\ UNCHANGED <<cache, args, local, trainCount, log, start>>

\* Lines 135-137 and 184-186: _MODEL_CACHE[cache_key] = model; return model.
CachePut(t) ==
    /\ pc[t] = "cache_put"
    /\ cache' = CacheInsert(local[t].cache_key, local[t].model[1])
    /\ Logged(t, <<"cache_set">>)
    /\ Result(t, IF args[t].op = "get_model" THEN "Trained" ELSE "Retrained", local[t].model)
    /\ Goto(t, "done")
    /\ UNCHANGED <<store, args, local, trainCount, start>>

\* The caller has its result (or exception); the thread is free for a new call.
Return(t) ==
    /\ pc[t] = "done"
    /\ pc' = [pc EXCEPT ![t] = "idle"]
    /\ args' = [args EXCEPT ![t] = NoArgs]
    /\ local' = [local EXCEPT ![t] = NoLocal]
    /\ ret' = [ret EXCEPT ![t] = NoRet]
    /\ log' = [log EXCEPT ![t] = <<>>]
    /\ start' = [start EXCEPT ![t] = NoStart]
    /\ UNCHANGED <<cache, store, trainCount>>

\* ---- forecaster.py: train_model and build_daily_balance_series ----

\* forecaster.py lines 9-11.
MIN_DAYS_REQUIRED == 90
DEFAULT_LOOKBACK_YEARS == 2
MAX_LOOKBACK_YEARS == 5

\* Days are day numbers.  Today is the day of pd.Timestamp.now() in
\* fetch_transactions; one build takes the same day at every fetch.
Today == 0
\* pd.DateOffset(years=1), in days (leap days are left out).
YearDays == 365
\* txn_date is a pandas Timestamp (repositories.py line 101): a day and a time
\* of day.  The transaction_date column is declared DATE, but SQLite stores
\* what the ingestion hands over, and normalize_types (validator.py line 49)
\* keeps a time of day that the input carries.  Two times of day are told
\* apart: midnight (a date-only value) and noon.
TicksPerDay == 2
Midnight == 0
Noon == 1
Timestamp(day, time_of_day) == day * TicksPerDay + time_of_day
\* The calendar day of a timestamp.
DayOf(timestamp) == timestamp \div TicksPerDay
\* pd.Timestamp.now(), taken at midnight.
Now == Timestamp(Today, Midnight)

\* currency.py lines 17-22.
CURRENCY_DECIMALS == [NGN |-> 2, USD |-> 2, EUR |-> 2, JPY |-> 0]

RECURSIVE Pow10(_)
Pow10(n) == IF n = 0 THEN 1 ELSE 10 * Pow10(n - 1)

\* Every currency is taken to have two decimal places.
FromSmallestUnit_TwoPlaces(amount_int, currency) ==
    [whole |-> amount_int \div 100, frac |-> amount_int % 100, places |-> 2]

\* currency.py lines 56-57: amount_int / 10 ** decimals, written as the decimal
\* number it is: integer part (floor), fraction in units of the last place.
FromSmallestUnit(amount_int, currency) ==
    LET factor == Pow10(CURRENCY_DECIMALS[currency])
    IN [whole |-> amount_int \div factor,
        frac |-> amount_int % factor,
        places |-> CURRENCY_DECIMALS[currency]]

\* A row of fetch_transactions (the category column plays no part).
Row(timestamp, a, dir) == [txn_date |-> timestamp, amount |-> a, direction |-> dir]

\* How the ingested file wrote transaction_date: as dates only, or with the
\* time of day of each transaction.
Styles == {"dates", "times"}
\* The rows of day d, the i-th day (oldest first) of its band: the first day
\* has an inflow and a smaller outflow, the second day an inflow and an equal
\* outflow, later days one outflow or one inflow.  With times of day the
\* second transaction of a day is at noon.
DayRows(d, i, style) ==
    LET first == Timestamp(d, Midnight)
        second == Timestamp(d, IF style = "times" THEN Noon ELSE Midnight)
    IN IF i = 1 THEN <<Row(first, 10000, "inflow"), Row(second, 4000, "outflow")>>
       ELSE IF i = 2 THEN <<Row(first, 5000, "inflow"), Row(second, 5000, "outflow")>>
       ELSE IF i % 2 = 0 THEN <<Row(first, 3000, "outflow")>>
       ELSE <<Row(first, 10000, "inflow")>>

\* Band w holds the days that the w-year window is the first to include; the
\* last band is older than the widest window.
Bands == DEFAULT_LOOKBACK_YEARS .. (MAX_LOOKBACK_YEARS + 1)
\* Distinct transaction days in a band: none, one, one less than the
\* threshold; the band of the 3-year window can also hold 95 days, and the
\* band older than the widest window is empty or long.
DayCounts(w) ==
    IF w = DEFAULT_LOOKBACK_YEARS + 1 THEN {0, 1, 89, 95}
    ELSE IF w = MAX_LOOKBACK_YEARS + 1 THEN {0, 89}
    ELSE {0, 1, 89}
\* The oldest of the n days of band w.  The first band starts on the cutoff
\* day of the default window; every other band ends on the day before the
\* cutoff of the next narrower window.
BandOldest(w, n) ==
    IF w = DEFAULT_LOOKBACK_YEARS
    THEN Today - YearDays * w
    ELSE Today - YearDays * (w - 1) - n

RECURSIVE Flatten(_)
Flatten(seqs) == IF seqs = <<>> THEN <<>> ELSE Head(seqs) \o Flatten(Tail(seqs))

BandRows(w, n, style) ==
    Flatten([i \in 1..n |-> DayRows(BandOldest(w, n) + i - 1, i, style)])

\* The rows of bands w, w - 1, ..., oldest first.
RECURSIVE RowsFrom(_, _, _)
RowsFrom(w, h, style) ==
    IF w < DEFAULT_LOOKBACK_YEARS THEN <<>>
    ELSE BandRows(w, h[w], style) \o RowsFrom(w - 1, h, style)

\* The transaction histories of the account: the days of each band.
Histories ==
    {h \in [Bands -> UNION {DayCounts(w) : w \in Bands}] : \A w \in Bands : h[w] \in DayCounts(w)}
Ledgers == {RowsFrom(MAX_LOOKBACK_YEARS + 1, h, style) : h \in Histories, style \in Styles}

\* The account's row in the accounts table: none, or starting balance
\* (smallest unit) and currency; "GBP" is not in CURRENCY_DECIMALS.
AccountRows ==
    {None,
     Some([starting_balance |-> 50000000, currency |-> "NGN"]),
     Some([starting_balance |-> 10000, currency |-> "JPY"]),
     Some([starting_balance |-> 10000, currency |-> "GBP"])}

\* repositories.py lines 103-106: the rows not older than years_back years.
FetchTransactions(rows, years_back) ==
    IF years_back # 0
    THEN LET cutoff == Now - Timestamp(YearDays * years_back, Midnight)
         IN SelectSeq(rows, LAMBDA r : r.txn_date >= cutoff)
    ELSE rows

\* The stored amount is taken as it is, whatever the direction.
SignedAmount_AsStored(row) == row.amount

\* forecaster.py lines 19-23.
SignedAmount(row) == IF row.direction = "inflow" THEN row.amount ELSE -row.amount

\* A local variable: value is computed once and named x in F(x).
With(value, F(_)) == CHOOSE result \in {F(x) : x \in {value}} : TRUE

\* Lines 59-62, groupby("txn_date")["signed_amount"].sum(): the function
\* date -> sum of the signed amounts of rows lo..hi, computed by halves.
RECURSIVE SumByDate(_, _, _)
SumByDate(rows, lo, hi) ==
    IF lo > hi THEN [d \in {} |-> 0]
    ELSE IF lo = hi THEN (rows[lo].txn_date :> SignedAmount(rows[lo]))
    ELSE With(<<SumByDate(rows, lo, (lo + hi) \div 2),
                SumByDate(rows, (lo + hi) \div 2 + 1, hi)>>,
              LAMBDA h : [d \in DOMAIN h[1] \cup DOMAIN h[2] |->
                             (IF d \in DOMAIN h[1] THEN h[1][d] ELSE 0)
                             + (IF d \in DOMAIN h[2] THEN h[2][d] ELSE 0)])

\* Line 63, sort_index(): the dates of the groups in increasing order, each once.
SortIndex(rows) ==
    With(SortSeq([i \in DOMAIN rows |-> rows[i].txn_date], LAMBDA a, b : a < b),
         LAMBDA dates :
            With(SelectSeq([i \in DOMAIN dates |->
                               <<dates[i], IF i = 1 THEN dates[1] - 1 ELSE dates[i - 1]>>],
                           LAMBDA p : p[1] # p[2]),
                 LAMBDA firsts : [j \in DOMAIN firsts |-> firsts[j][1]]))

\* Lines 59-64: one entry per distinct txn_date, its net signed amount, by date.
GroupByDate(rows) ==
    With(<<SumByDate(rows, 1, Len(rows)), SortIndex(rows)>>,
         LAMBDA g : [j \in DOMAIN g[2] |-> [ds |-> g[2][j], v |-> g[1][g[2][j]]]])

\* Line 79, cumsum(): the running totals of entries lo..hi, computed by halves.
RECURSIVE CumSum(_, _, _)
CumSum(dc, lo, hi) ==
    IF lo > hi THEN <<>>
    ELSE IF lo = hi THEN <<dc[lo].v>>
    ELSE With(<<CumSum(dc, lo, (lo + hi) \div 2), CumSum(dc, (lo + hi) \div 2 + 1, hi)>>,
              LAMBDA h : h[1] \o [j \in DOMAIN h[2] |-> h[2][j] + h[1][Len(h[1])]])

\* Lines 79-86: balance per date, converted to the major unit.
BalanceSeries(dc, starting_balance, currency) ==
    With(CumSum(dc, 1, Len(dc)),
         LAMBDA running :
            [j \in DOMAIN dc |->
                [ds |-> dc[j].ds,
                 y |-> FromSmallestUnit(running[j] + starting_balance, currency)]])

\* No build is running.
BuilderIdle ==
    /\ bpc = "idle"
    /\ meta = None
    /\ meta_fetches = 0
    /\ lookback_years = 0
    /\ txns = <<>>
    /\ daily_cashflow = <<>>
    /\ fetches = <<>>
    /\ bret = NoRet

BuilderReset ==
    /\ bpc' = "idle"
    /\ meta' = None
    /\ meta_fetches' = 0
    /\ lookback_years' = 0
    /\ txns' = <<>>
    /\ daily_cashflow' = <<>>
    /\ fetches' = <<>>
    /\ bret' = NoRet

BuildRaise(exc) ==
    /\ bret' = [outcome |-> exc, value |-> None]
    /\ bpc' = "raised"

\* A missing account is replaced by an empty account and the build goes on.
MetadataMissing_Default ==
    /\ meta' = Some([starting_balance |-> 0, currency |-> "NGN"])
    /\ bpc' = "loop"
    /\ UNCHANGED bret

\* repositories.py lines 59-61: no row for the account raises ValueError, which
\* line 37 of forecaster.py does not handle.
MetadataMissing ==
    /\ BuildRaise("ValueError")
    /\ UNCHANGED meta

\* forecaster.py line 102 and lines 37-42: train_model calls the builder, which
\* reads the account's metadata once and sets up the loop.
BuildStart(t) ==
    /\ pc[t] = "training" /\ args[t].model_type = "forecaster"
    /\ bpc = "idle"
    /\ meta_fetches' = meta_fetches + 1
    /\ IF account = None
       THEN /\ MetadataMissing
            /\ UNCHANGED lookback_years
       ELSE /\ meta' = account
            /\ lookback_years' = DEFAULT_LOOKBACK_YEARS
            /\ bpc' = "loop"
            /\ UNCHANGED bret
    /\ UNCHANGED <<ledger, account, txns, daily_cashflow, fetches>>
    /\ UNCHANGED pvars

\* A failed query is caught and the same window is fetched again.
FetchFailure_Retry ==
    /\ bpc' = "loop"
    /\ UNCHANGED bret

\* Lines 45-48 have no handler: an exception of fetch_transactions
\* (repositories.py lines 84-95, sqlite3.Error) leaves the builder.
FetchFailure == BuildRaise("sqlite3.Error")

\* The lookback doubles instead of growing by one year.
NextLookback_Double(years) == years * 2

\* Lines 54 and 69: lookback_years += 1.
NextLookback(years) == years + 1

\* Lines 44-48: the loop test holds and the window is fetched; the query can fail.
BuildFetch ==
    /\ bpc = "loop"
    /\ lookback_years <= MAX_LOOKBACK_YEARS
    /\ fetches' = Append(fetches, lookback_years)
    /\ \/ /\ txns' = FetchTransactions(ledger, lookback_years)
          /\ bpc' = "fetched"
          /\ UNCHANGED bret
       \/ /\ FetchFailure
          /\ UNCHANGED txns
    /\ UNCHANGED <<ledger, account, lookback_years, daily_cashflow>>
    /\ UNCHANGED mvars
    /\ UNCHANGED pvars

\* Line 44: the loop test fails.
BuildLoopExit ==
    /\ bpc = "loop"
    /\ lookback_years > MAX_LOOKBACK_YEARS
    /\ bpc' = "check"
    /\ UNCHANGED <<ledger, account, lookback_years, txns, daily_cashflow, fetches, bret>>
    /\ UNCHANGED mvars
    /\ UNCHANGED pvars

\* Lines 50-55: an empty window widens the lookback.
BuildEmptyWindow ==
    /\ bpc = "fetched"
    /\ txns = <<>>
    /\ lookback_years' = NextLookback(lookback_years)
    /\ bpc' = "loop"
    /\ UNCHANGED <<ledger, account, txns, daily_cashflow, fetches, bret>>
    /\ UNCHANGED mvars
    /\ UNCHANGED pvars

\* Widening stops only above the threshold.
EnoughDays_Above(dc) == Len(dc) > MIN_DAYS_REQUIRED
\* Only the days with a non-zero net amount count.
EnoughDays_NonZero(dc) == Cardinality({j \in DOMAIN dc : dc[j].v # 0}) >= MIN_DAYS_REQUIRED

\* Line 66: the window is long enough to stop widening.
EnoughDays(dc) == Len(dc) >= MIN_DAYS_REQUIRED

\* The grouped window is added to what the narrower windows gave before.
Regroup_Accumulate(previous, rows) ==
    LET grouped == GroupByDate(rows)
        before(d) == {k \in DOMAIN previous : previous[k].ds = d}
    IN [j \in DOMAIN grouped |->
           [ds |-> grouped[j].ds,
            v |-> grouped[j].v + (IF before(grouped[j].ds) = {} THEN 0
                                  ELSE previous[CHOOSE k \in before(grouped[j].ds) : TRUE].v)]]

\* Lines 59-64: daily_cashflow is assigned the grouping of the window just
\* fetched; its previous value is dropped.
Regroup(previous, rows) == GroupByDate(rows)

\* Only an empty series is refused.
TooFewDays_EmptyOnly(dc) == dc = <<>>

\* Line 71: daily_cashflow.empty or len(daily_cashflow) < MIN_DAYS_REQUIRED.
TooFewDays(dc) == dc = <<>> \/ Len(dc) < MIN_DAYS_REQUIRED

\* Lines 57-69: group the window by date; stop when it has enough days,
\* otherwise widen the lookback.
BuildGroup ==
    /\ bpc = "fetched"
    /\ txns # <<>>
    /\ daily_cashflow' = Regroup(daily_cashflow, txns)
    /\ IF EnoughDays(daily_cashflow')
       THEN /\ bpc' = "check"
            /\ UNCHANGED lookback_years
       ELSE /\ lookback_years' = NextLookback(lookback_years)
            /\ bpc' = "loop"
    /\ UNCHANGED <<ledger, account, txns, fetches, bret>>
    /\ UNCHANGED mvars
    /\ UNCHANGED pvars

\* Lines 71-92: too few days raise InsufficientDataError; otherwise the series
\* is built (from_smallest_unit raises ValueError for an unknown currency).
BuildFinish ==
    /\ bpc = "check"
    /\ IF TooFewDays(daily_cashflow)
       THEN BuildRaise("InsufficientDataError")
       ELSE IF meta[1].currency \notin DOMAIN CURRENCY_DECIMALS
       THEN BuildRaise("ValueError")
       ELSE /\ bret' = [outcome |-> "returned",
                        value |-> Some(BalanceSeries(daily_cashflow,
                                                     meta[1].starting_balance,
                                                     meta[1].currency))]
            /\ bpc' = "returned"
    /\ UNCHANGED <<ledger, account, lookback_years, txns, daily_cashflow, fetches>>
    /\ UNCHANGED mvars
    /\ UNCHANGED pvars

\* forecaster.py lines 104-114: the model is fitted on the series and returned
\* to persistence.py line 132 or 178.
TrainFit(t) ==
    /\ pc[t] = "training"
    /\ bpc = "returned"
    /\ local' = [local EXCEPT
                    ![t].model = Some(Artifact(local[t].cache_key, args[t].op, local[t].run))]
    /\ Goto(t, "save")
    /\ BuilderReset
    /\ UNCHANGED <<cache, store, args, ret, trainCount, log, start, ledger, account>>

\* The builder's exception leaves train_model and the persistence call.
TrainRaise(t) ==
    /\ pc[t] = "training"
    /\ bpc = "raised"
    /\ Raise(t, bret.outcome)
    /\ Goto(t, "done")
    /\ BuilderReset
    /\ UNCHANGED <<cache, store, args, local, trainCount, log, start, ledger, account>>

\* The steps of the build that is running.
BuildStep ==
    \/ BuildFetch
    \/ BuildLoopExit
    \/ BuildEmptyWindow
    \/ BuildGroup
    \/ BuildFinish

\* The next step of the call that thread t is in.
CallStep(t) ==
    \/ GetModelCacheCheck(t)
    \/ GetModelCacheRead(t)
    \/ GetModelDiskCheck(t)
    \/ GetModelDiskLoad(t)
    \/ GetModelLoadCache(t)
    \/ GetModelPolicy(t)
    \/ TrainEnd(t)
    \/ SaveBegin(t)
    \/ SaveEnd(t)
    \/ CachePut(t)

\* One step of thread t, its new calls drawn from gets and trains.
Step(t, gets, trains) ==
    \/ \E c \in gets : GetModelCall(t, c[1], c[2])
    \/ \E c \in trains : TrainAndSaveCall(t, c[1], c[2], c[3])
    \/ CallStep(t)
    \/ Return(t)

Next ==
    /\ \E t \in Threads : Step(t, ConcGetCalls, ConcTrainCalls)
    /\ UNCHANGED bvars
    /\ UNCHANGED fvars
Spec == Init /\ [][Next]_vars

\* The same program called from a single thread: calls never overlap.
NextSeq ==
    /\ \E t \in SeqThreads : Step(t, GetCalls, TrainCalls)
    /\ UNCHANGED bvars
    /\ UNCHANGED fvars
SpecSeq == InitSeq /\ [][NextSeq]_vars

\* The forecaster calls of one account, with training run step by step.
ForecasterGetCalls == {<<"forecaster", Some("a1")>>}
ForecasterTrainCalls == {<<"forecaster", Some("a1"), "absent">>}

\* The steps of a persistence call other than the end of train_model.
PersistStep(t) ==
    \/ GetModelCacheCheck(t)
    \/ GetModelCacheRead(t)
    \/ GetModelDiskCheck(t)
    \/ GetModelDiskLoad(t)
    \/ GetModelLoadCache(t)
    \/ GetModelPolicy(t)
    \/ SaveBegin(t)
    \/ SaveEnd(t)
    \/ CachePut(t)

InitTrain ==
    /\ InitWith({ModelPath(c[1], c[2]) : c \in ForecasterGetCalls})
    /\ ledger \in Ledgers
    /\ account \in AccountRows
    /\ BuilderIdle
    /\ NoFunctionCall

NextTrain ==
    /\ \E t \in SeqThreads :
          \/ /\ \/ \E c \in ForecasterGetCalls : GetModelCall(t, c[1], c[2])
                \/ \E c \in ForecasterTrainCalls : TrainAndSaveCall(t, c[1], c[2], c[3])
                \/ PersistStep(t)
                \/ Return(t)
             /\ UNCHANGED bvars
          \/ BuildStart(t)
          \/ BuildStep
          \/ TrainFit(t)
          \/ TrainRaise(t)
    /\ UNCHANGED fvars

SpecTrain == InitTrain /\ [][NextTrain]_vars

\* ---- forecaster.forecast_balance ----

\* The training series of the fitted models: their dates lie within the days
\* 0..MaxHistoryDay, and forecasts reach up to MaxDaysAhead days.
MaxHistoryDay == 2
MaxDaysAhead == 3

RECURSIVE SortedSeq(_)
SortedSeq(S) ==
    IF S = {} THEN <<>>
    ELSE LET least == CHOOSE x \in S : \A y \in S : x <= y
         IN <<least>> \o SortedSeq(S \ {least})

\* A fitted Prophet model keeps the dates of the series it was trained on
\* (forecaster.py line 110, model.fit(df)): a non-empty, increasing sequence of
\* ds values, with or without a time of day, with or without gaps.
HistoryStamps == Timestamp(0, Midnight) .. Timestamp(MaxHistoryDay, Noon)
FittedModels ==
    {[history_dates |-> SortedSeq(S)] : S \in (SUBSET HistoryStamps) \ {{}}}

\* Line 127, Prophet's make_future_dataframe(periods) with its defaults
\* freq = "D" and include_history = True: the history dates followed by the
\* first periods dates of the daily range that starts at the last history
\* date, the start itself dropped.
MakeFutureDataframe(model, periods) ==
    LET last_date == model.history_dates[Len(model.history_dates)]
        range == [k \in 1 .. (periods + 1) |-> last_date + (k - 1) * TicksPerDay]
        later == SelectSeq(range, LAMBDA d : d > last_date)
    IN model.history_dates \o SubSeq(later, 1, IF periods < Len(later) THEN periods ELSE Len(later))

\* Line 128, model.predict(future): one forecast row per row of future.
PredictRow(d) ==
    [ds |-> d, yhat |-> "yhat", yhat_lower |-> "yhat_lower", yhat_upper |-> "yhat_upper"]
ProphetPredict(model, future) == [j \in DOMAIN future |-> PredictRow(future[j])]

\* The whole forecast is returned, history included.
TailRows_All(rows, n) == rows

\* Lines 130-132, DataFrame.tail(n) for n >= 0: the last n rows, all rows when
\* there are fewer.
TailRows(rows, n) ==
    IF n >= Len(rows) THEN rows ELSE SubSeq(rows, Len(rows) - n + 1, Len(rows))

\* forecaster.py lines 117-132.
ForecastBalance(model, days_ahead) ==
    TailRows(ProphetPredict(model, MakeFutureDataframe(model, days_ahead)), days_ahead)

ForecastCalls ==
    {[fn |-> "forecast_balance", model |-> m, days_ahead |-> n] :
        m \in FittedModels, n \in 0 .. MaxDaysAhead}

\* The function returns value.
FnReturn(value) ==
    /\ fn_ret' = [outcome |-> "returned", value |-> Some(value)]
    /\ UNCHANGED fn_call
\* The function raises exc.
FnRaise(exc) ==
    /\ fn_ret' = [outcome |-> exc, value |-> None]
    /\ UNCHANGED fn_call
\* A call of function fn has been made and has not ended.
FnPending(fn) == fn_call.fn = fn /\ fn_ret = NoRet

ForecastBalanceCall ==
    /\ FnPending("forecast_balance")
    /\ FnReturn(ForecastBalance(fn_call.model, fn_call.days_ahead))

\* ---- core.currency ----

\* A float amount in the major unit is written as a whole number of units of
\* the last of InputPlaces decimal places: 125 is 0.125, -2500 is -2.5.
InputPlaces == 3
\* The amounts of the model: up to MaxAmount of those units in magnitude, in
\* steps of AmountStep (0.005).
MaxAmount == 2600
AmountStep == 5
Amounts == {a \in (-MaxAmount) .. MaxAmount : a % AmountStep = 0}
\* An amount with whole units of the major currency and thousandths.
Decimal(units, thousandths) == units * Pow10(InputPlaces) + thousandths
\* Currency codes: the keys of CURRENCY_DECIMALS and codes that are not keys.
CurrencyCodes == DOMAIN CURRENCY_DECIMALS \cup {"GBP", "ngn", ""}

\* Lines 32 and 52: currency not in CURRENCY_DECIMALS.
Supported(currency) == currency \in DOMAIN CURRENCY_DECIMALS

\* The float holds the decimal amount exactly: its fraction is a multiple of
\* 1/8 (the binary fractions among thousandths).
ExactFloat(amount) == amount % 125 = 0

\* The exact value p / q lies halfway between two integers.
Halfway(p, q) == 2 * (p - (p \div q) * q) = q

\* Ties go to the integer of larger magnitude.
RoundFloat_HalfAwayFromZero(p, q) ==
    LET below == p \div q
    IN IF 2 * (p - below * q) < q THEN below
       ELSE IF 2 * (p - below * q) > q THEN below + 1
       ELSE IF below >= 0 THEN below + 1 ELSE below

\* Line 37, Python's round() of the float p / q: the nearest integer, a tie
\* going to the even one.
RoundFloat(p, q) ==
    LET below == p \div q
    IN IF 2 * (p - below * q) < q THEN below
       ELSE IF 2 * (p - below * q) > q THEN below + 1
       ELSE IF below % 2 = 0 THEN below ELSE below + 1

\* Lines 36-37: int(round(amount * factor)).  The product of floats is the
\* exact product when the amount is held exactly; otherwise it is off by a
\* rounding error, which decides a tie of the decimal value either way.
ToSmallestUnit(amount, currency) ==
    LET p == amount * Pow10(CURRENCY_DECIMALS[currency])
        q == Pow10(InputPlaces)
    IN IF Halfway(p, q) /\ ~ExactFloat(amount)
       THEN {p \div q, p \div q + 1}
       ELSE {RoundFloat(p, q)}

\* The amount that a result of from_smallest_unit stands for, in the units of
\* the amounts above.
AmountOf(major) ==
    (major.whole * Pow10(major.places) + major.frac) * Pow10(InputPlaces - major.places)

\* A value is returned for a code that is not a key.
UnsupportedCurrency_Zero == FnReturn(0)

\* Lines 32-34 and 52-54: raise ValueError("Unsupported currency: ...").
UnsupportedCurrency == FnRaise("ValueError")

ToSmallestUnitCalls ==
    {[fn |-> "to_smallest_unit", amount |-> a, currency |-> c] :
        a \in Amounts, c \in CurrencyCodes}
\* Smallest-unit amounts are integers.
FromSmallestUnitCalls ==
    {[fn |-> "from_smallest_unit", amount_int |-> a, currency |-> c] :
        a \in Amounts, c \in CurrencyCodes}

\* currency.py lines 25-42.
ToSmallestUnitCall ==
    /\ FnPending("to_smallest_unit")
    /\ IF ~Supported(fn_call.currency)
       THEN UnsupportedCurrency
       ELSE \E smallest \in ToSmallestUnit(fn_call.amount, fn_call.currency) :
               FnReturn(smallest)

\* currency.py lines 45-62.
FromSmallestUnitCall ==
    /\ FnPending("from_smallest_unit")
    /\ IF ~Supported(fn_call.currency)
       THEN UnsupportedCurrency
       ELSE FnReturn(FromSmallestUnit(fn_call.amount_int, fn_call.currency))

\* ---- ml.categorizer: the keyword rules and predict ----

\* Text is a sequence of characters.  categorizer.py lines 11-35, in the order
\* of the dict: each category with its keywords.
KEYWORD_RULES ==
    <<[category |-> "Salaries",
       keywords |->
          {<<"s", "a", "l", "a", "r", "y">>,  \* salary
           <<"w", "a", "g", "e", "s">>,  \* wages
           <<"p", "a", "y", "r", "o", "l", "l">>,  \* payroll
           <<"b", "o", "n", "u", "s", " ", "p", "a", "y", "m", "e", "n", "t">>,  \* bonus payment
           <<"s", "t", "a", "f", "f", " ", "w", "a", "g", "e", "s">>,  \* staff wages
           <<"d", "r", "i", "v", "e", "r", " ", "s", "a", "l", "a", "r", "y">>,  \* driver salary
           <<"m", "a", "n", "a", "g", "e", "r", " ", "s", "a", "l", "a", "r", "y">>,  \* manager salary
           <<"a", "d", "m", "i", "n", " ", "s", "t", "a", "f", "f">>,  \* admin staff
           <<"c", "o", "n", "t", "r", "a", "c", "t", "o", "r", " ", "f", "e", "e">>  \* contractor fee
          }],
      [category |-> "Rent",
       keywords |->
          {<<"r", "e", "n", "t">>,  \* rent
           <<"l", "e", "a", "s", "e">>,  \* lease
           <<"s", "t", "o", "r", "e", " ", "r", "e", "n", "t", "a", "l">>,  \* store rental
           <<"s", "h", "o", "p", " ", "r", "e", "n", "t">>,  \* shop rent
           <<"c", "o", "-", "w", "o", "r", "k", "i", "n", "g">>,  \* co-working
           <<"s", "t", "o", "r", "a", "g", "e", " ", "u", "n", "i", "t">>,  \* storage unit
           <<"k", "i", "o", "s", "k">>,  \* kiosk
           <<"o", "f", "f", "i", "c", "e", " ", "r", "e", "n", "t">>  \* office rent
          }],
      [category |-> "Utilities",
       keywords |->
          {<<"e", "l", "e", "c", "t", "r", "i", "c", "i", "t", "y">>,  \* electricity
           <<"p", "o", "w", "e", "r">>,  \* power
           <<"w", "a", "t", "e", "r", " ", "b", "i", "l", "l">>,  \* water bill
           <<"i", "n", "t", "e", "r", "n", "e", "t">>,  \* internet
           <<"b", "r", "o", "a", "d", "b", "a", "n", "d">>,  \* broadband
           <<"d", "s", "t", "v">>,  \* dstv
           <<"e", "n", "e", "r", "g", "y", " ", "c", "o", "s", "t">>,  \* energy cost
           <<"h", "e", "a", "t", "i", "n", "g", " ", "b", "i", "l", "l">>,  \* heating bill
           <<"w", "a", "s", "t", "e", " ", "d", "i", "s", "p", "o", "s", "a", "l">>,  \* waste disposal
           <<"s", "e", "w", "a", "g", "e">>  \* sewage
          }],
      [category |-> "Revenue",
       keywords |->
          {<<"c", "a", "s", "h", " ", "s", "a", "l", "e">>,  \* cash sale
           <<"p", "o", "s", " ", "t", "r", "a", "n", "s", "a", "c", "t", "i", "o", "n">>,  \* pos transaction
           <<"r", "e", "t", "a", "i", "l", " ", "s", "a", "l", "e", "s">>,  \* retail sales
           <<"c", "u", "s", "t", "o", "m", "e", "r", " ", "t", "r", "a", "n", "s", "f", "e", "r">>,  \* customer transfer
           <<"s", "a", "l", "e", "s", " ", "r", "e", "v", "e", "n", "u", "e">>,  \* sales revenue
           <<"o", "n", "l", "i", "n", "e", " ", "o", "r", "d", "e", "r">>,  \* online order
           <<"c", "o", "n", "s", "u", "l", "t", "i", "n", "g", " ", "r", "e", "v", "e", "n", "u", "e">>,  \* consulting revenue
           <<"r", "e", "f", "u", "n", "d", " ", "r", "e", "c", "e", "i", "v", "e", "d">>  \* refund received
          }],
      [category |-> "Inventory",
       keywords |->
          {<<"g", "o", "o", "d", "s", " ", "r", "e", "c", "e", "i", "v", "e", "d">>,  \* goods received
           <<"v", "e", "n", "d", "o", "r", " ", "p", "u", "r", "c", "h", "a", "s", "e">>,  \* vendor purchase
           <<"i", "n", "v", "e", "n", "t", "o", "r", "y", " ", "r", "e", "s", "t", "o", "c", "k">>,  \* inventory restock
           <<"s", "u", "p", "p", "l", "i", "e", "r", " ", "p", "a", "y", "m", "e", "n", "t">>,  \* supplier payment
           <<"g", "o", "o", "d", "s", " ", "a", "c", "q", "u", "i", "s", "i", "t", "i", "o", "n">>,  \* goods acquisition
           <<"w", "h", "o", "l", "e", "s", "a", "l", "e", " ", "g", "o", "o", "d", "s">>,  \* wholesale goods
           <<"b", "u", "l", "k", " ", "p", "r", "o", "d", "u", "c", "t">>,  \* bulk product
           <<"r", "e", "t", "a", "i", "l", " ", "i", "n", "v", "e", "n", "t", "o", "r", "y">>  \* retail inventory
          }],
      [category |-> "Marketing",
       keywords |->
          {<<"m", "a", "r", "k", "e", "t", "i", "n", "g">>,  \* marketing
           <<"b", "a", "n", "n", "e", "r", " ", "d", "e", "s", "i", "g", "n">>,  \* banner design
           <<"r", "a", "d", "i", "o", " ", "a", "d">>,  \* radio ad
           <<"p", "r", "o", "d", "u", "c", "t", " ", "l", "a", "u", "n", "c", "h">>,  \* product launch
           <<"p", "r", " ", "s", "e", "r", "v", "i", "c", "e", "s">>,  \* pr services
           <<"f", "a", "c", "e", "b", "o", "o", "k", " ", "a", "d", "s">>,  \* facebook ads
           <<"b", "r", "a", "n", "d", " ", "c", "a", "m", "p", "a", "i", "g", "n">>,  \* brand campaign
           <<"e", "m", "a", "i", "l", " ", "m", "a", "r", "k", "e", "t", "i", "n", "g">>  \* email marketing
          }],
      [category |-> "Supplies",
       keywords |->
          {<<"t", "o", "o", "l", "s", " ", "&", " ", "h", "a", "r", "d", "w", "a", "r", "e">>,  \* tools & hardware
           <<"m", "e", "r", "c", "h", "a", "n", "d", "i", "s", "e", " ", "r", "e", "s", "t", "o", "c", "k">>,  \* merchandise restock
           <<"m", "e", "d", "i", "c", "a", "l", " ", "s", "u", "p", "p", "l", "i", "e", "s">>,  \* medical supplies
           <<"c", "o", "n", "s", "u", "m", "a", "b", "l", "e", "s">>,  \* consumables
           <<"s", "a", "f", "e", "t", "y", " ", "e", "q", "u", "i", "p", "m", "e", "n", "t">>,  \* safety equipment
           <<"e", "q", "u", "i", "p", "m", "e", "n", "t", " ", "p", "u", "r", "c", "h", "a", "s", "e">>  \* equipment purchase
          }],
      [category |-> "Miscellaneous",
       keywords |->
          {<<"a", "c", "c", "o", "u", "n", "t", "i", "n", "g">>,  \* accounting
           <<"f", "r", "e", "i", "g", "h", "t">>,  \* freight
           <<"p", "e", "r", "m", "i", "t", " ", "f", "e", "e">>,  \* permit fee
           <<"c", "u", "s", "t", "o", "m", "s", " ", "d", "u", "t", "y">>,  \* customs duty
           <<"c", "o", "n", "f", "e", "r", "e", "n", "c", "e", " ", "f", "e", "e">>,  \* conference fee
           <<"s", "h", "i", "p", "p", "i", "n", "g", " ", "c", "o", "s", "t">>,  \* shipping cost
           <<"v", "e", "h", "i", "c", "l", "e", " ", "m", "a", "i", "n", "t", "e", "n", "a", "n", "c", "e">>,  \* vehicle maintenance
           <<"f", "u", "e", "l", " ", "c", "o", "s", "t">>  \* fuel cost
          }]>>

\* categorizer.py line 37.
EMPTY_DESCRIPTIONS ==
    {<<>>,
     <<"-">>,
     <<"n", "/", "a">>,
     <<"n", "i", "l">>,
     <<"n", "i", "l", "l">>,
     <<"n", "o", "n", "e">>}

\* The description texts of the model.
Texts ==
    {<<>>,  \* ""
     <<" ", " ", " ">>,  \* "   "
     <<"N", "/", "A">>,  \* "N/A"
     <<" ", "n", "i", "l", " ">>,  \* " nil "
     <<"n", "i", "l", "l">>,  \* "nill"
     <<"n", "o", "n", "e">>,  \* "none"
     <<"-">>,  \* "-"
     <<"M", "o", "n", "t", "h", "l", "y", " ", "S", "a", "l", "a", "r", "y", " ", "P", "a", "y", "m", "e", "n", "t">>,  \* "Monthly Salary Payment"
     <<"b", "o", "n", "u", "s", " ", "p", "a", "y", "m", "e", "n", "t">>,  \* "bonus payment"
     <<"o", "f", "f", "i", "c", "e", " ", "r", "e", "n", "t">>,  \* "office rent"
     <<"s", "h", "o", "p", " ", "r", "e", "n", "t">>,  \* "shop rent"
     <<"e", "l", "e", "c", "t", "r", "i", "c", "i", "t", "y", " ", "b", "i", "l", "l">>,  \* "electricity bill"
     <<"i", "n", "t", "e", "r", "n", "e", "t", " ", "s", "e", "r", "v", "i", "c", "e">>,  \* "internet service"
     <<"c", "a", "s", "h", " ", "s", "a", "l", "e">>,  \* "cash sale"
     <<"p", "o", "s", " ", "t", "r", "a", "n", "s", "a", "c", "t", "i", "o", "n">>,  \* "pos transaction"
     <<"r", "a", "n", "d", "o", "m", " ", "u", "n", "k", "n", "o", "w", "n", " ", "e", "x", "p", "e", "n", "s", "e">>,  \* "random unknown expense"
     <<"c", "u", "r", "r", "e", "n", "t", " ", "a", "c", "c", "o", "u", "n", "t">>,  \* "current account"
     <<"r", "e", "n", "t", " ", "a", "n", "d", " ", "s", "a", "l", "a", "r", "y">>,  \* "rent and salary"
     <<"a", "c", "c", "o", "u", "n", "t", "i", "n", "g", " ", "f", "o", "r", " ", "m", "a", "r", "k", "e", "t", "i", "n", "g">>,  \* "accounting for marketing"
     <<"E", "q", "u", "i", "p", "m", "e", "n", "t", " ", "r", "e", "p", "a", "i", "r">>,  \* "Equipment repair"
     <<"p", "o", "w", "e", "r", " ", "t", "o", "o", "l", "s", " ", "&", " ", "h", "a", "r", "d", "w", "a", "r", "e">>,  \* "power tools & hardware"
     <<"f", "r", "e", "i", "g", "h", "t">>,  \* "freight"
     <<"n", "/", "a", " ", "f", "e", "e">>,  \* "n/a fee"
     <<"F", "a", "c", "e", "b", "o", "o", "k", " ", "A", "d", "s", " ", "C", "a", "m", "p", "a", "i", "g", "n">>,  \* "Facebook Ads Campaign"
     <<"I", "n", "v", "e", "n", "t", "o", "r", "y", " ", "R", "e", "s", "t", "o", "c", "k">>,  \* "Inventory Restock"
     <<"\t", "D", "S", "T", "V", " ">>,  \* "\tDSTV "
     <<"n", "i", "l">>,  \* "nil"
     <<"S", "t", "a", "f", "f", " ", "s", "a", "l", "a", "r", "y", " ", "f", "o", "r", " ", "M", "a", "y">>,  \* "Staff salary for May"
     <<"P", "a", "i", "d", " ", "o", "f", "f", "i", "c", "e", " ", "r", "e", "n", "t">>,  \* "Paid office rent"
     <<"F", "u", "e", "l", " ", "p", "u", "r", "c", "h", "a", "s", "e", " ", "a", "t", " ", "s", "t", "a", "t", "i", "o", "n">>,  \* "Fuel purchase at station"
     <<"I", "n", "t", "e", "r", "n", "e", "t", " ", "s", "u", "b", "s", "c", "r", "i", "p", "t", "i", "o", "n", " ", "p", "a", "y", "m", "e", "n", "t">>,  \* "Internet subscription payment"
     <<"R", "a", "n", "d", "o", "m", " ", "t", "r", "a", "n", "s", "a", "c", "t", "i", "o", "n", " ", "x", "y", "z">>}  \* "Random transaction xyz"

\* A cell of the description column: a str, Python's None, or the missing
\* value NaN (a float) that pandas puts where a CSV cell is empty.
StrCell(text) == [kind |-> "str", text |-> text]
NoneCell == [kind |-> "None"]
NaNCell == [kind |-> "nan"]
\* The values of the direction column; only "inflow" itself is an inflow.
Directions == {"inflow", "outflow", "Inflow"}

\* str.strip() removes the whitespace at both ends.
Whitespace == {" ", "\t"}
RECURSIVE LStrip(_)
LStrip(text) ==
    IF text # <<>> /\ Head(text) \in Whitespace THEN LStrip(Tail(text)) ELSE text
RECURSIVE RStrip(_)
RStrip(text) ==
    IF text # <<>> /\ text[Len(text)] \in Whitespace
    THEN RStrip(SubSeq(text, 1, Len(text) - 1))
    ELSE text
Strip(text) == LStrip(RStrip(text))
\* str.lower() maps each upper-case letter to its lower-case letter.
UpperCase ==
    <<"A", "B", "C", "D", "E", "F", "G", "H", "I", "J", "K", "L", "M",
      "N", "O", "P", "Q", "R", "S", "T", "U", "V", "W", "X", "Y", "Z">>
LowerCase ==
    <<"a", "b", "c", "d", "e", "f", "g", "h", "i", "j", "k", "l", "m",
      "n", "o", "p", "q", "r", "s", "t", "u", "v", "w", "x", "y", "z">>
LowerChar(c) ==
    IF \E i \in DOMAIN UpperCase : UpperCase[i] = c
    THEN LowerCase[CHOOSE i \in DOMAIN UpperCase : UpperCase[i] = c]
    ELSE c
Lower(text) == [i \in 1 .. Len(text) |-> LowerChar(text[i])]

NormalizeText_AsIs(text) == text
\* categorizer.py lines 40-41: text.strip().lower().
NormalizeText(text) == Lower(Strip(text))

\* Python's  keyword in desc  on str: keyword is a substring of desc.
KeywordIn(keyword, desc) ==
    \E i \in 1 .. (Len(desc) - Len(keyword) + 1) :
        SubSeq(desc, i, i + Len(keyword) - 1) = keyword

\* Lines 59-63: the loop over KEYWORD_RULES.items() from rule i on; the first
\* category one of whose keywords is in desc, None after the last rule.
RECURSIVE FirstRule(_, _)
FirstRule(desc, i) ==
    IF i > Len(KEYWORD_RULES)
    THEN None
    ELSE IF \E keyword \in KEYWORD_RULES[i].keywords : KeywordIn(keyword, desc)
         THEN Some(KEYWORD_RULES[i].category)
         ELSE FirstRule(desc, i + 1)

\* Line 52,  not description : true of None and of the empty str, false of
\* any other str and of NaN.
NotDescription(description) ==
    \/ description.kind = "None"
    \/ description.kind = "str" /\ description.text = <<>>

\* Lines 52 and 41: a description that is not falsy is normalized with
\* .strip(), which a float does not have: AttributeError.
RuleRaises(description) == description.kind = "nan"

DefaultCategory_Miscellaneous(direction) == "Miscellaneous"
\* Lines 53-55.
DefaultCategory(direction) ==
    IF direction = "inflow" THEN "Revenue" ELSE "Miscellaneous"

\* categorizer.py lines 44-63, for a description that does not raise: Some
\* category, or None.
RuleBasedCategory(description, direction) ==
    IF \/ NotDescription(description)
       \/ NormalizeText(description.text) \in EMPTY_DESCRIPTIONS
    THEN Some(DefaultCategory(direction))
    ELSE FirstRule(NormalizeText(description.text), 1)

\* The descriptions rule_based_category is called with: Optional[str].
RuleBasedCategoryCalls ==
    [fn : {"rule_based_category"},
     description : {NoneCell} \cup {StrCell(text) : text \in Texts},
     direction : Directions]

RuleBasedCategoryCall ==
    /\ FnPending("rule_based_category")
    /\ FnReturn(RuleBasedCategory(fn_call.description, fn_call.direction))

\* The frames of the model: up to MaxRows rows, each with a description cell
\* of at most MaxCellLen characters (or None, or NaN) and a direction.
MaxRows == 2
MaxCellLen == 7
FrameCells ==
    {NoneCell, NaNCell} \cup {StrCell(text) : text \in {t \in Texts : Len(t) <= MaxCellLen}}
FrameRows == [description : FrameCells, direction : {"inflow", "outflow"}]
Frames == UNION {[1 .. n -> FrameRows] : n \in 0 .. MaxRows}

\* The trained pipeline, by what its predict gives for a description: one
\* pipeline gives the same label for all, the other a label by the length.
Pipelines == {"constant", "by_length"}
PipelinePredict(model, text) ==
    IF model = "constant" \/ Len(text) % 2 = 0 THEN "Rent" ELSE "Supplies"

\* Line 122, str(row["description"]).
CellStr(cell) ==
    IF cell.kind = "str" THEN cell.text
    ELSE IF cell.kind = "None" THEN <<"N", "o", "n", "e">>
    ELSE <<"n", "a", "n">>

ConsultsModel_Always(rule_category) == TRUE
\* Lines 117-119: the model is asked when the rules gave None.
ConsultsModel(rule_category) == rule_category = None

\* Lines 110-124, the loop from row i on.  The result is the list categories
\* with the descriptions passed to the model, or the exception of the first
\* row that raises.
RECURSIVE PredictLoop(_, _, _, _, _)
PredictLoop(df, model, i, categories, consulted) ==
    IF i > Len(df)
    THEN [outcome |-> "returned", categories |-> categories, consulted |-> consulted]
    ELSE IF RuleRaises(df[i].description)
    THEN [outcome |-> "AttributeError", categories |-> categories, consulted |-> consulted]
    ELSE LET rule_category == RuleBasedCategory(df[i].description, df[i].direction)
         IN  IF ~ConsultsModel(rule_category)
             THEN PredictLoop(df, model, i + 1,
                              Append(categories, rule_category[1]), consulted)
             ELSE PredictLoop(df, model, i + 1,
                              Append(categories,
                                     PipelinePredict(model, CellStr(df[i].description))),
                              Append(consulted, i))

\* Line 127: df["category"] = categories.
WithCategory(frame, categories) ==
    [i \in 1 .. Len(frame) |->
        [description |-> frame[i].description,
         direction |-> frame[i].direction,
         category |-> categories[i]]]

\* Line 126, df = df.copy(): the column is assigned on a copy, and the frame
\* of the caller stays as it was.
CallerFrame(df, out) == df

\* categorizer.py lines 100-130.
Predict(df, model) ==
    LET loop == PredictLoop(df, model, 1, <<>>, <<>>)
        out == WithCategory(df, loop.categories)
    IN  IF loop.outcome # "returned"
        THEN [outcome |-> loop.outcome, consulted |-> loop.consulted,
              caller_df |-> df]
        ELSE [outcome |-> "returned", frame |-> out,
              consulted |-> loop.consulted, caller_df |-> CallerFrame(df, out)]

PredictCalls == [fn : {"predict"}, df : Frames, model : Pipelines]

PredictCall ==
    /\ FnPending("predict")
    /\ LET result == Predict(fn_call.df, fn_call.model)
       IN  IF result.outcome = "returned"
           THEN FnReturn(result)
           ELSE FnRaise(result.outcome)

\* ---- automation.retry and automation.tasks ----

\* What one invocation of a function does: it returns ("ok") or raises an
\* exception of the named type.  ValueError and OSError derive from Exception;
\* KeyboardInterrupt derives from BaseException only.
ExceptionTypes == {"ValueError", "OSError", "KeyboardInterrupt"}
Invocations == {"ok"} \cup ExceptionTypes
\* isinstance(e, exceptions) for e of type exc_type, exceptions a tuple of types.
IsInstance(exc_type, exceptions) ==
    \/ exc_type \in exceptions
    \/ "Exception" \in exceptions /\ exc_type \in {"ValueError", "OSError"}

\* The attempts of the model: max_attempts up to MaxAttempts, the function's
\* behaviour given for MaxAttempts + 1 invocations.
MaxAttempts == 3
\* The value the i-th invocation returns, and the exception it raises.
ResultOf(i) == [result_of |-> i]
RaisedBy(exc_type, i) == [type |-> exc_type, raised_by |-> i]

NextWait_Constant(wait, backoff) == wait
\* retry.py line 33: wait *= backoff.
NextWait(wait, backoff) == wait * backoff

\* retry.py line 28: attempts == max_attempts.
LastAttempt(attempts, max_attempts) == attempts = max_attempts

\* retry.py lines 23-33, the while loop of wrapper: attempts and wait are its
\* locals, calls the invocations of func made so far, sleeps the arguments of
\* the time.sleep calls made so far.  Falling off the loop returns None.
RECURSIVE RetryLoop(_, _, _, _, _, _, _, _)
RetryLoop(max_attempts, backoff, exceptions, script, attempts, wait, calls, sleeps) ==
    IF ~(attempts < max_attempts)
    THEN [outcome |-> "returned", value |-> None, calls |-> calls, sleeps |-> sleeps]
    ELSE IF script[calls + 1] = "ok"
    THEN [outcome |-> "returned", value |-> Some(ResultOf(calls + 1)),
          calls |-> calls + 1, sleeps |-> sleeps]
    ELSE IF ~IsInstance(script[calls + 1], exceptions)
    THEN [outcome |-> "raised", value |-> Some(RaisedBy(script[calls + 1], calls + 1)),
          calls |-> calls + 1, sleeps |-> sleeps]
    ELSE IF LastAttempt(attempts + 1, max_attempts)
    THEN [outcome |-> "raised", value |-> Some(RaisedBy(script[calls + 1], calls + 1)),
          calls |-> calls + 1, sleeps |-> sleeps]
    ELSE RetryLoop(max_attempts, backoff, exceptions, script, attempts + 1,
                   NextWait(wait, backoff), calls + 1, Append(sleeps, wait))

\* retry.py lines 20-33: wrapper, for func behaving as script says.
Retry(max_attempts, delay, backoff, exceptions, script) ==
    RetryLoop(max_attempts, backoff, exceptions, script, 0, delay, 0, <<>>)

RetryCalls ==
    [fn : {"retry"},
     max_attempts : 0 .. MaxAttempts,
     delay : {2, 5},
     backoff : {1, 2},
     exceptions : {{"Exception"}, {"ValueError"}, {"ValueError", "OSError"}},
     script : [1 .. (MaxAttempts + 1) -> Invocations]]

\* The call ends: what it returned or raised, with the invocations and sleeps
\* it made.
FnEnd(result) ==
    /\ fn_ret' = [outcome |-> result.outcome, value |-> Some(result)]
    /\ UNCHANGED fn_call

RetryCall ==
    /\ FnPending("retry")
    /\ FnEnd(Retry(fn_call.max_attempts, fn_call.delay, fn_call.backoff,
                   fn_call.exceptions, fn_call.script))

\* What run_ingestion does when called: it returns, or one of its steps fails
\* (reader: FileNotFoundError, an OSError, or ValueError; validator:
\* ValidationError; loader: sqlite3.Error), all deriving from Exception.
RunIngestionOutcomes == {"ok", "ValueError", "OSError"}

TaskBody_NoHandler(run_outcome) == run_outcome
\* tasks.py lines 34-38: the body of ingest_transactions calls run_ingestion in
\* a try with  except Exception : the failure is logged and the body returns.
TaskBody(run_outcome) ==
    IF IsInstance(run_outcome, {"Exception"}) THEN "ok" ELSE run_outcome

\* tasks.py lines 27-38: ingest_transactions is the body wrapped by
\* retry(max_attempts=3, delay=5); each invocation of the body calls
\* run_ingestion once, which behaves as run_script says.
IngestTransactions(run_script) ==
    Retry(3, 5, 2, {"Exception"}, [i \in DOMAIN run_script |-> TaskBody(run_script[i])])

IngestTransactionsCalls ==
    [fn : {"ingest_transactions"},
     run_script : [1 .. (MaxAttempts + 1) -> RunIngestionOutcomes]]

IngestTransactionsCall ==
    /\ FnPending("ingest_transactions")
    /\ FnEnd(IngestTransactions(fn_call.run_script))

\* ---- ingestion.loader ----

\* A transaction row: its transaction_id and the rest of its columns.
TransactionIds == {"x1", "x2"}
Payloads == {"a", "b"}
TxnRows == [transaction_id : TransactionIds, payload : Payloads]
\* The validated frames handed to load_transactions: up to MaxBatch rows (the
\* reader refuses an empty file), with repeated ids or not.
MaxBatch == 3
Batches == UNION {[1 .. n -> TxnRows] : n \in 1 .. MaxBatch}
\* The transactions table: a set of rows, one per transaction_id (PRIMARY KEY,
\* loader.py line 18).
HasId(rows, id) == \E r \in rows : r.transaction_id = id
Tables == {t \in SUBSET TxnRows : \A r, s \in t : r.transaction_id = s.transaction_id => r = s}
\* The processed CSV: None when the file does not exist, else its rows.  A
\* file written by the first save of all (line 44) holds the frame as it was.
MaxCsvRows == 2
CsvFiles == {None} \cup {Some(rows) : rows \in UNION {[1 .. n -> TxnRows] : n \in 0 .. MaxCsvRows}}

\* INSERT of the rows of df from row i on into table: a row whose
\* transaction_id is already there violates the primary key.
RECURSIVE InsertRows(_, _, _)
InsertRows(table, df, i) ==
    IF i > Len(df) THEN [error |-> "none", table |-> table]
    ELSE IF HasId(table, df[i].transaction_id)
    THEN [error |-> "IntegrityError", table |-> table]
    ELSE InsertRows(table \cup {df[i]}, df, i + 1)

\* loader.py lines 61-66, df.to_sql("transactions", conn, if_exists="append"):
\* pandas inserts the rows in one transaction and rolls it back when the
\* insert raises.  The database can fail for another reason (db_fails).
ToSql(table, df, db_fails) ==
    IF db_fails THEN [error |-> "OperationalError", table |-> table]
    ELSE LET inserted == InsertRows(table, df, 1)
         IN  IF inserted.error = "none"
             THEN inserted
             ELSE [error |-> inserted.error, table |-> table]

\* drop_duplicates(subset=["transaction_id"]): the first row of each id stays.
DropDuplicates(rows) ==
    SelectSeq([i \in DOMAIN rows |->
                  [row |-> rows[i],
                   first |-> \A j \in 1 .. (i - 1) :
                                rows[j].transaction_id # rows[i].transaction_id]],
              LAMBDA e : e.first)
DedupedRows(rows) ==
    LET kept == DropDuplicates(rows) IN [i \in DOMAIN kept |-> kept[i].row]

SaveProcessedCsv_Append(csv, df) ==
    IF csv # None THEN Some(csv[1] \o df) ELSE Some(df)
\* loader.py lines 35-45: an existing file is read, the frame is appended and
\* the duplicates are dropped; the result, or the frame itself when there was
\* no file, is written.
SaveProcessedCsv(csv, df) ==
    IF csv # None THEN Some(DedupedRows(csv[1] \o df)) ELSE Some(df)

\* loader.py lines 48-78: IntegrityError is logged and swallowed (lines 69-71),
\* any other exception is re-raised (lines 73-75) before the CSV is saved.
LoadTransactions(table, csv, df, db_fails) ==
    LET sql == ToSql(table, df, db_fails)
    IN  IF sql.error \notin {"none", "IntegrityError"}
        THEN [outcome |-> sql.error, table |-> sql.table, csv |-> csv]
        ELSE [outcome |-> "returned", table |-> sql.table,
              csv |-> SaveProcessedCsv(csv, df)]

\* The first load of a batch, into any table and processed CSV.
LoadTransactionsCalls ==
    [fn : {"load_transactions"}, load : {1}, df : Batches, table : Tables,
     csv : CsvFiles, db_fails : BOOLEAN]

LoadTransactionsCall ==
    /\ FnPending("load_transactions")
    /\ FnEnd(LoadTransactions(fn_call.table, fn_call.csv, fn_call.df, fn_call.db_fails))

\* tasks.py lines 28-32: the task runs again on the same source file: the
\* batch is loaded a second time into what the first load left.
LoadAgain ==
    /\ fn_call.fn = "load_transactions"
    /\ fn_call.load = 1
    /\ fn_ret.outcome = "returned"
    /\ \E fails \in BOOLEAN :
          fn_call' = [fn_call EXCEPT !.load = 2,
                                     !.table = fn_ret.value[1].table,
                                     !.csv = fn_ret.value[1].csv,
                                     !.db_fails = fails]
    /\ fn_ret' = NoRet

\* ---- the functions called on an input ----

FunctionCalls ==
    ForecastCalls \cup ToSmallestUnitCalls \cup FromSmallestUnitCalls
        \cup RuleBasedCategoryCalls \cup PredictCalls
        \cup RetryCalls \cup IngestTransactionsCalls \cup LoadTransactionsCalls

InitFn ==
    /\ InitWith({})
    /\ NoTrainingData
    /\ fn_call \in FunctionCalls
    /\ fn_ret = NoRet

NextFn ==
    /\ \/ ForecastBalanceCall
       \/ ToSmallestUnitCall
       \/ FromSmallestUnitCall
       \/ RuleBasedCategoryCall
       \/ PredictCall
       \/ RetryCall
       \/ IngestTransactionsCall
       \/ LoadTransactionsCall
       \/ LoadAgain
    /\ UNCHANGED pvars
    /\ UNCHANGED bvars

SpecFn == InitFn /\ [][NextFn]_vars

\* ---- vocabulary of the properties ----

IsGet(t) == args[t].op = "get_model"
IsRetrain(t) == args[t].op = "train_and_save_model"
\* Thread t takes the step.
Moves(t) == pc'[t] # pc[t]
\* The step ends t's call.
Finishes(t) == pc[t] # "done" /\ pc'[t] = "done"
\* How many times access x occurs in a call's log.
Count(accesses, x) == Cardinality({i \in DOMAIN accesses : accesses[i] = x})
\* The file the call computes for its key (lines 108, 173, 180).
CallPath(t) ==
    ModelPath(args[t].model_type,
              IF IsGet(t) THEN NormAccount(args[t].model_type, args[t].account_id)
              ELSE TrainAccount(args[t].model_type, args[t].account_id))
\* Map m holds exactly v at key k.
Holds(m, k, v) == k \in DOMAIN m /\ m[k] = v
\* Neither the cache nor the artifact directory held the call's key when it began.
ColdStart(t) == ~start[t].cached /\ start[t].stored = "absent"

\* ---- C1 ----
\* C1: a get_model call for the categorizer that begins while neither the cache
\* nor the store holds the categorizer key ends with ModelNotFoundError; no step
\* of it invokes a train function, and every step of it leaves the cache, the
\* store and the training count as they were.
C1_RefusedWithoutTraining ==
    [][\A t \in Threads :
          (IsGet(t) /\ args[t].model_type = "categorizer" /\ ColdStart(t) /\ Moves(t))
          => /\ UNCHANGED <<cache, store, trainCount>>
             /\ Count(log'[t], "train") = 0
             /\ Finishes(t) => ret'[t].outcome = "ModelNotFoundError"]_vars

\* A categorizer get_model on an empty cache and store has been refused.
C1_Witness ==
    \E t \in Threads :
        /\ pc[t] = "done" /\ IsGet(t) /\ args[t].model_type = "categorizer"
        /\ ColdStart(t)
        /\ ret[t].outcome = "ModelNotFoundError"
        /\ "categorizer:global" \notin DOMAIN cache
        /\ "categorizer.joblib" \notin DOMAIN store

\* ---- C2 ----
\* C2: a forecaster get_model call that begins with its key absent from cache
\* and store invokes training exactly once; when training and saving succeed
\* it returns the artifact of that run, and the store and the cache hold that
\* artifact at the key.  A forecaster get_model call that begins with the key
\* cached returns the cached artifact, and no step of it trains or changes
\* the cache, so the training count of the key stays what it was.
C2_ColdStartTrainsOnce ==
    /\ [](\A t \in Threads :
            (pc[t] = "done" /\ IsGet(t) /\ args[t].model_type = "forecaster" /\ ColdStart(t))
            => /\ Count(log[t], "train") = 1
               /\ ret[t].outcome \in {"Trained", "InsufficientDataError", "OSError"}
               /\ ret[t].outcome = "Trained"
                  => /\ ret[t].value =
                          Some(Artifact(local[t].cache_key, "get_model",
                                        trainCount[local[t].cache_key]))
                     /\ Holds(store, CallPath(t), ret[t].value[1])
                     /\ Holds(cache, local[t].cache_key, ret[t].value[1]))
    /\ [][\A t \in Threads :
            (IsGet(t) /\ args[t].model_type = "forecaster" /\ start[t].cached /\ Moves(t))
            => /\ UNCHANGED <<cache, store, trainCount>>
               /\ Count(log'[t], "train") = 0
               /\ Finishes(t)
                  => ret'[t] = [outcome |-> "Cached",
                                value |-> Some(cache[local[t].cache_key])]]_vars

\* A second get_model for a forecaster key returned the artifact that the
\* first, cold-start call trained, with one training run counted for the key.
C2_Witness ==
    \E t \in Threads :
        /\ pc[t] = "done" /\ IsGet(t) /\ args[t].model_type = "forecaster"
        /\ start[t].cached
        /\ ret[t].outcome = "Cached"
        /\ ret[t].value = Some(Artifact(local[t].cache_key, "get_model", 1))
        /\ Holds(store, CallPath(t), ret[t].value[1])
        /\ trainCount[local[t].cache_key] = 1

\* ---- C3 ----
\* The get_model calls whose auto-training for key k is running.
AutoTraining(k) ==
    {t \in Threads : IsGet(t) /\ pc[t] = "training" /\ local[t].cache_key = k}

\* C3: concurrent get_model calls for one key never train at the same time:
\* at most one auto-training run per key is in progress in any state.
C3_OneTrainingPerKey ==
    \A k \in CacheKeys : Cardinality(AutoTraining(k)) <= 1

\* ---- C4 ----
\* Another call has the file of t's key open for writing.
SaveInProgress(t) ==
    \E u \in Threads \ {t} : pc[u] = "saving" /\ local[u].path = local[t].path

\* C4: a get_model call that loads its key's file while a save of that file is
\* in progress gets a whole artifact, never a partially written one.
C4_NoPartialRead ==
    [][\A t \in Threads :
          (pc[t] = "disk_load" /\ Moves(t) /\ SaveInProgress(t))
          => /\ pc'[t] = "load_cache"
             /\ IsArtifact(local'[t].model[1])]_vars

\* ---- C5 ----
\* Thread t is inside a call that has a key and has not ended.
InFlight(t) == pc[t] \notin {"idle", "done"}

\* The most steps a call at this label still takes before it ends.
StepsLeft(label) ==
    CASE label = "cache_check" -> 7
      [] label = "disk_check" -> 6
      [] label = "policy" -> 5
      [] label = "training" -> 4
      [] label = "save" -> 3
      [] label = "saving" -> 2
      [] label = "disk_load" -> 2
      [] label \in {"cache_read", "load_cache", "cache_put"} -> 1
      [] OTHER -> 0

\* C5: while a call for another key is in flight, a call can always take its
\* next step, and each step it takes leaves it fewer steps from its end: it
\* completes without waiting for the other key's call.
C5_DifferentKeysIndependent ==
    /\ [](\A t \in Threads, u \in Threads :
            (t # u /\ InFlight(t) /\ InFlight(u) /\ local[t].cache_key # local[u].cache_key)
            => ENABLED CallStep(t))
    /\ [][\A t \in Threads :
            (InFlight(t) /\ Moves(t)) => StepsLeft(pc'[t]) < StepsLeft(pc[t])]_vars

\* A get_model call is about to train for one key while another key's
\* training is running.
C5_Witness ==
    \E t \in Threads, u \in Threads :
        /\ pc[t] = "policy" /\ LazyTrain(args[t].model_type)
        /\ pc[u] = "training"
        /\ local[t].cache_key # local[u].cache_key

\* ---- C6 ----
\* The arguments of t's train_and_save_model call name a kind and give it what
\* it requires (df for the categorizer, an account id for the forecaster).
WellFormedRetrain(t) ==
    \/ args[t].model_type = "categorizer" /\ args[t].df # "absent"
    \/ args[t].model_type = "forecaster" /\ args[t].account_id \in {Some(a) : a \in AccountIds}

\* C6: a train_and_save_model call with well-formed arguments, of either kind,
\* invokes train_model exactly once, as its first access, and never reads the
\* cache or the store; when it returns, the store and the cache hold the
\* artifact of this new training run at the key, whatever they held when the
\* call began.  A get_model call that finds a retrained artifact cached
\* returns that artifact.
C6_RetrainOverwrites ==
    /\ \A t \in Threads :
          (pc[t] = "done" /\ IsRetrain(t) /\ WellFormedRetrain(t))
          => /\ Count(log[t], "train") = 1
             /\ log[t][1] = "train"
             /\ \A x \in {"cache_contains", "cache_get", "store_exists", "store_load"} :
                   Count(log[t], x) = 0
             /\ ret[t].outcome \in {"Retrained", "ValueError", "InsufficientDataError", "OSError"}
             /\ ret[t].outcome = "Retrained"
                => /\ ret[t].value =
                        Some(Artifact(local[t].cache_key, "train_and_save_model",
                                      trainCount[local[t].cache_key]))
                   /\ Holds(store, CallPath(t), ret[t].value[1])
                   /\ Holds(cache, local[t].cache_key, ret[t].value[1])
    /\ \A t \in Threads :
          (/\ pc[t] = "done" /\ IsGet(t) /\ ret[t].value # None
           /\ local[t].cache_key \in DOMAIN cache
           /\ cache[local[t].cache_key].by = "train_and_save_model")
          => ret[t].value = Some(cache[local[t].cache_key])

\* An explicit retrain has replaced an artifact that was cached and stored
\* when it began, for a kind that does not auto-train.
C6_Witness ==
    \E t \in Threads :
        /\ pc[t] = "done" /\ IsRetrain(t) /\ args[t].model_type = "categorizer"
        /\ start[t].cached /\ start[t].stored = "artifact"
        /\ ret[t].outcome = "Retrained"
        /\ ret[t].value[1].n = 2

\* ---- C7 ----
CategorizerKey == "categorizer:global"
CategorizerPath == "categorizer.joblib"
\* Where a categorizer artifact may come from.
ExplicitOrigins == {"earlier_process", "train_and_save_model"}
\* The entry of map m at key k as an optional value.
At(m, k) == IF k \in DOMAIN m THEN Some(m[k]) ELSE None

\* C7: under any interleaving of calls, a categorizer artifact in the cache or
\* the store was left by an earlier process or trained by
\* train_and_save_model, and the categorizer key is in the cache or the store
\* only if its file was there from the start or train_and_save_model has
\* trained the categorizer; no step of a get_model call trains for the
\* categorizer key or writes its file, and a get_model step that adds the
\* categorizer to the cache adds the artifact it loaded from the store.
C7_CategorizerNeverAutoTrained ==
    /\ [](/\ CategorizerKey \in DOMAIN cache
             => cache[CategorizerKey].by \in ExplicitOrigins
          /\ (CategorizerPath \in DOMAIN store /\ IsArtifact(store[CategorizerPath]))
             => store[CategorizerPath].by \in ExplicitOrigins
          /\ (CategorizerKey \in DOMAIN cache \/ CategorizerPath \in DOMAIN store)
             => \/ Holds(store, CategorizerPath, Preexisting(CategorizerPath))
                \/ trainCount[CategorizerKey] > 0
          /\ \A t \in Threads :
                (IsGet(t) /\ args[t].model_type = "categorizer") => Count(log[t], "train") = 0)
    /\ [][\A t \in Threads :
            (IsGet(t) /\ Moves(t))
            => /\ At(store', CategorizerPath) = At(store, CategorizerPath)
               /\ trainCount'[CategorizerKey] = trainCount[CategorizerKey]
               /\ At(cache', CategorizerKey) # At(cache, CategorizerKey)
                  => /\ pc[t] = "load_cache"
                     /\ IsArtifact(cache'[CategorizerKey])
                     /\ cache'[CategorizerKey].by \in ExplicitOrigins]_vars

\* get_model serves a categorizer that train_and_save_model trained in this
\* process.
C7_Witness ==
    \E t \in Threads :
        /\ pc[t] = "done" /\ IsGet(t) /\ args[t].model_type = "categorizer"
        /\ ret[t].value # None
        /\ ret[t].value[1].by = "train_and_save_model"
        /\ ~Holds(store, CategorizerPath, Preexisting(CategorizerPath))

\* ---- C8 ----
\* C8: a get_model call that begins with its key cached ends as a cache hit
\* whose only accesses are the two cache reads: no existence check, load or
\* save of the file and no training.  Its steps leave cache, store and
\* training count unchanged, and it returns the artifact the cache holds at
\* the key, whatever the store holds there.
C8_CacheHitTouchesNothing ==
    /\ [](\A t \in Threads :
            (pc[t] = "done" /\ IsGet(t) /\ start[t].cached)
            => /\ ret[t].outcome = "Cached"
               /\ log[t] = <<"cache_contains", "cache_get">>)
    /\ [][\A t \in Threads :
            (/\ IsGet(t) /\ Moves(t) /\ pc[t] \in {"cache_check", "cache_read"}
             /\ local[t].cache_key \in DOMAIN cache)
            => /\ UNCHANGED <<cache, store, trainCount>>
               /\ pc[t] = "cache_check" => pc'[t] = "cache_read"
               /\ pc[t] = "cache_read"
                  => /\ pc'[t] = "done"
                     /\ ret'[t] = [outcome |-> "Cached",
                                   value |-> Some(cache[local[t].cache_key])]]_vars

\* A cache hit returned an artifact while the store held a different one at
\* the key.
C8_Witness ==
    \E t \in Threads :
        /\ pc[t] = "done" /\ IsGet(t) /\ ret[t].outcome = "Cached"
        /\ Holds(cache, local[t].cache_key, ret[t].value[1])
        /\ CallPath(t) \in DOMAIN store
        /\ IsArtifact(store[CallPath(t)])
        /\ store[CallPath(t)] # ret[t].value[1]

\* ---- C9 ----
\* The call began with its key out of the cache and a whole artifact on disk.
StoredOnly(t) == ~start[t].cached /\ start[t].stored = "artifact"

Malformed(a) ==
    \/ a.model_type \notin {"categorizer", "forecaster"}
    \/ a.model_type = "forecaster" /\ a.account_id \in {None, Some("")}

\* C10: a get_model or train_and_save_model call whose model_type is unknown,
\* or which names the forecaster with account_id None or empty, ends at once
\* with ValueError: it has made no cache, store or training access, and the
\* step that runs it leaves cache, store and training count unchanged.
C10_MalformedRejected ==
    /\ [](\A t \in Threads :
            (args[t].op # "none" /\ Malformed(args[t]))
            => /\ pc[t] = "done"
               /\ ret[t] = [outcome |-> "ValueError", value |-> None]
               /\ log[t] = <<>>)
    /\ [][\A t \in Threads :
            (args'[t] # args[t] /\ args'[t].op # "none" /\ Malformed(args'[t]))
            => UNCHANGED <<cache, store, trainCount>>]_vars

\* get_model("forecaster", account_id=None) has raised ValueError.
C10_Witness ==
    \E t \in Threads :
        /\ pc[t] = "done" /\ IsGet(t)
        /\ args[t].model_type = "forecaster" /\ args[t].account_id = None
        /\ ret[t].outcome = "ValueError"
\* ---- C11 ----

\* The scope of a call: the categorizer is global whatever account_id the
\* caller passed, the forecaster is scoped to its account.
ScopeOf(t) == IF args[t].model_type = "categorizer" THEN None ELSE args[t].account_id

\* The call has passed validation and computed its cache key.
HasKey(t) == local[t].cache_key # ""
\* The call has computed its file path.
HasPath(t) == local[t].path # ""

\* C11: the cache key and the storage path of a call are functions of its
\* (kind, scope) alone, the same in get_model and in train_and_save_model: every
\* call holds the key and the path that train_and_save_model computes for that
\* (kind, scope); two forecaster calls for different accounts never share a key
\* or a path, and a forecaster call never holds the categorizer's key or path.
C11_KeyAndPathFunctionOfScope ==
    \A t \in Threads :
        /\ HasKey(t) => local[t].cache_key = CacheKey(args[t].model_type, ScopeOf(t))
        /\ HasPath(t) => local[t].path = ModelPath(args[t].model_type, ScopeOf(t))
        /\ HasKey(t) /\ args[t].model_type = "forecaster" =>
              /\ local[t].cache_key # CategorizerKey
              /\ local[t].path # CategorizerPath
              /\ \A a \in AccountIds \ {args[t].account_id[1]} :
                    /\ local[t].cache_key # CacheKey("forecaster", Some(a))
                    /\ HasPath(t) => local[t].path # ModelPath("forecaster", Some(a))

\* ---- C12 ----
\* The accesses that change the cache or the store.
WriteAccesses == {"store_dump", "cache_set"}
\* The call has made no write access.
NoWrites(accesses) == \A x \in WriteAccesses : Count(accesses, x) = 0

\* The exception the adapter of t's kind raises when its training fails.
AdapterError(t) ==
    IF args[t].model_type = "categorizer" THEN "ValueError" ELSE "InsufficientDataError"

\* t's call ended because its train_model call raised.
TrainFailed(t) ==
    /\ pc[t] = "done" /\ log[t] # <<>> /\ log[t][Len(log[t])] = "train"
    /\ ret[t].outcome # "OSError"

\* C12: when train_model raises inside get_model or train_and_save_model, the
\* caller gets the adapter's own exception (InsufficientDataError from the
\* forecaster, ValueError from the categorizer); the call has read at most the
\* cache and the store before training and has written neither, every step of
\* a call that has written nothing leaves cache and store unchanged, and so
\* the key is cached and stored after the call exactly as it was before.
C12_TrainFailureChangesNothing ==
    /\ [](\A t \in Threads :
            TrainFailed(t)
            => /\ ret[t] = [outcome |-> AdapterError(t), value |-> None]
               /\ log[t] = IF IsGet(t) THEN <<"cache_contains", "store_exists", "train">>
                           ELSE <<"train">>
               /\ Snapshot(local[t].cache_key, CallPath(t)) = start[t])
    /\ [][\A t \in Threads :
            /\ (Moves(t) /\ pc'[t] # "idle" /\ NoWrites(log'[t]))
               => UNCHANGED <<cache, store>>
            /\ (pc[t] = "training" /\ pc'[t] = "done")
               => /\ ret'[t].outcome = AdapterError(t)
                  /\ UNCHANGED <<cache, store>>]_vars

\* An explicit forecaster retrain failed with InsufficientDataError while the
\* key was cached and stored; both still hold the artifact of the earlier run.
C12_Witness ==
    \E t \in Threads :
        /\ TrainFailed(t) /\ IsRetrain(t) /\ args[t].model_type = "forecaster"
        /\ ret[t].outcome = "InsufficientDataError"
        /\ start[t].cached /\ start[t].stored = "artifact"
        /\ Holds(cache, local[t].cache_key, Artifact(local[t].cache_key, "get_model", 1))
        /\ Holds(store, CallPath(t), Artifact(local[t].cache_key, "get_model", 1))
        /\ trainCount[local[t].cache_key] = 2

\* ---- C13 ----
\* No years_back value occurs twice among the fetches of the running build.
EachWindowOnce == \A i \in DOMAIN fetches, j \in DOMAIN fetches : fetches[i] = fetches[j] => i = j

\* C13: nothing is retried.  A get_model or train_and_save_model call invokes
\* train_model at most once; a build fetches each lookback window at most
\* once; a fetch that fails is the build's last one; and once the build has
\* failed the only step left hands its exception to the caller, whose call
\* ends with that exception after its single training attempt.
C13_NoRetry ==
    /\ [](/\ \A t \in Threads : Count(log[t], "train") <= 1
          /\ EachWindowOnce
          /\ bpc = "raised" => ~ENABLED BuildStep)
    /\ [][/\ (bpc = "loop" /\ bpc' = "raised")
             => /\ bret'.outcome = "sqlite3.Error"
                /\ fetches' = Append(fetches, lookback_years)
          /\ bpc = "raised"
             => \E t \in Threads :
                   /\ pc[t] = "training" /\ pc'[t] = "done"
                   /\ ret'[t] = [outcome |-> bret.outcome, value |-> None]
                   /\ Count(log'[t], "train") = 1
                   /\ trainCount' = trainCount]_vars

\* A get_model call trained once, and its build failed at its third fetch
\* after two windows fetched once each.
C13_Witness ==
    \E t \in Threads :
        /\ IsGet(t) /\ pc[t] = "training" /\ Count(log[t], "train") = 1
        /\ bpc = "raised" /\ bret.outcome = "sqlite3.Error"
        /\ fetches = <<2, 3, 4>>

\* ---- C14 ----
\* The build is inside or just past its widening loop.
BuildRunning == bpc \in {"loop", "fetched", "check"}

\* The steps the running build can still take at most.
BuildStepsLeft ==
    CASE bpc = "loop" -> 2 * (MAX_LOOKBACK_YEARS + 1 - lookback_years) + 3
      [] bpc = "fetched" -> 2 * (MAX_LOOKBACK_YEARS + 1 - lookback_years) + 2
      [] bpc = "check" -> 1
      [] OTHER -> 0

\* C14: the widening loop is monotonic and terminates.  The lookback starts at
\* DEFAULT_LOOKBACK_YEARS, each step of the build leaves it as it is or adds
\* exactly one year, the i-th fetch asks for DEFAULT_LOOKBACK_YEARS + i - 1
\* years and never for more than MAX_LOOKBACK_YEARS, so a build makes at most
\* MAX - DEFAULT + 1 = 4 fetches; the running build can always take a step,
\* and every step leaves it fewer steps from its end.
C14_WideningTerminates ==
    /\ [](/\ Len(fetches) <= MAX_LOOKBACK_YEARS - DEFAULT_LOOKBACK_YEARS + 1
          /\ \A i \in DOMAIN fetches :
                /\ fetches[i] = DEFAULT_LOOKBACK_YEARS + i - 1
                /\ fetches[i] <= MAX_LOOKBACK_YEARS
          /\ BuildRunning
             => /\ lookback_years \in DEFAULT_LOOKBACK_YEARS .. (MAX_LOOKBACK_YEARS + 1)
                /\ ENABLED BuildStep)
    /\ [][/\ (bpc = "idle" /\ bpc' = "loop") => lookback_years' = DEFAULT_LOOKBACK_YEARS
          /\ (BuildRunning /\ <<bpc, lookback_years, fetches>>' # <<bpc, lookback_years, fetches>>)
             => /\ BuildStepsLeft' < BuildStepsLeft
                /\ bpc' # "idle"
                   => lookback_years' \in {lookback_years, lookback_years + 1}]_vars

\* The loop ended because the maximum window was passed: four fetches, the
\* last for MAX_LOOKBACK_YEARS, and still fewer days than the threshold.
C14_Witness ==
    /\ bpc = "check"
    /\ fetches = <<2, 3, 4, 5>>
    /\ lookback_years = MAX_LOOKBACK_YEARS + 1
    /\ daily_cashflow # <<>>
    /\ Len(daily_cashflow) < MIN_DAYS_REQUIRED

\* ---- C15 ----
\* The distinct calendar days on which the account has a transaction within
\* the last years_back years.
WindowDays(years_back) ==
    {DayOf(ledger[i].txn_date) :
        i \in {k \in DOMAIN ledger : DayOf(ledger[k].txn_date) >= Today - YearDays * years_back}}
\* The window covers at least MIN_DAYS_REQUIRED distinct days.
Sufficient(years_back) == Cardinality(WindowDays(years_back)) >= MIN_DAYS_REQUIRED
\* The window of the build's last fetch.
LastFetched == fetches[Len(fetches)]
\* The calendar days of the points of a series or of a grouped window.
DatesOf(points) == {DayOf(points[j].ds) : j \in DOMAIN points}
\* The build has returned a series.
Returned == bpc = "returned"
Series == bret.value[1]

\* Every transaction_date of the ledger is a date without a time of day.
DatesOnly == \A i \in DOMAIN ledger : ledger[i].txn_date % TicksPerDay = Midnight

\* When the loop has ended, every window fetched before the last is
\* insufficient, and the last one is either sufficient or the widest; the
\* grouped days are those of the last window.  A returned series has the days
\* of the last window, which is sufficient.
SmallestSufficientWindow ==
    bpc \in {"check", "returned"}
    => /\ \A i \in DOMAIN fetches : fetches[i] = DEFAULT_LOOKBACK_YEARS + i - 1
       /\ \A i \in 1 .. (Len(fetches) - 1) : ~Sufficient(fetches[i])
       /\ Sufficient(LastFetched) \/ LastFetched = MAX_LOOKBACK_YEARS
       /\ DatesOf(daily_cashflow) = WindowDays(LastFetched)
       /\ Returned
          => /\ Sufficient(LastFetched)
             /\ DatesOf(Series) = WindowDays(LastFetched)
             /\ (WindowDays(2) = {} /\ Cardinality(WindowDays(3)) = 95)
                => /\ fetches = <<2, 3>>
                   /\ Len(Series) >= MIN_DAYS_REQUIRED

\* C15: the windows are examined in the order 2, 3, 4, 5 years and the series
\* is built from the smallest window with at least MIN_DAYS_REQUIRED distinct
\* calendar days, no wider window being fetched.  An empty window sends the
\* build to the next wider one.  With the 2-year window empty and 95 distinct
\* days in the 3-year window the build fetches 2, 3 and returns at least 90
\* points.
C15_SmallestSufficientWindow ==
    /\ []SmallestSufficientWindow
    /\ [][(bpc = "fetched" /\ txns = <<>> /\ bpc' # bpc)
           => /\ bpc' = "loop"
              /\ lookback_years' = lookback_years + 1
              /\ UNCHANGED <<daily_cashflow, fetches>>]_vars

\* Only the 5-year window is sufficient: the build fetched 2, 3, 4, 5 and
\* returned the series of the 5-year window.
C15_Witness ==
    /\ Returned
    /\ fetches = <<2, 3, 4, 5>>
    /\ WindowDays(2) # {}
    /\ ~Sufficient(4)
    /\ Sufficient(5)
    /\ Len(Series) = Cardinality(WindowDays(5))

\* ---- C16 ----
Windows == DEFAULT_LOOKBACK_YEARS .. MAX_LOOKBACK_YEARS
\* The build ran its loop to the end: the account exists and no fetch failed.
LoopCompleted ==
    /\ bpc \in {"returned", "raised"}
    /\ account # None
    /\ bret.outcome # "sqlite3.Error"

\* C16: a build that ran its loop to the end fails with InsufficientDataError
\* exactly when no window of 2..5 years has at least MIN_DAYS_REQUIRED distinct
\* calendar days with a transaction (an account without transactions
\* included), and a returned series never has fewer than MIN_DAYS_REQUIRED
\* points.
C16_InsufficientExactly ==
    /\ LoopCompleted
       => (bret.outcome = "InsufficientDataError"
           <=> \A years_back \in Windows : ~Sufficient(years_back))
    /\ Returned => Len(Series) >= MIN_DAYS_REQUIRED

\* ---- C17 ----
\* The rows of the window that the build fetched last.
SelectedWindow == FetchTransactions(ledger, LastFetched)
\* The rows come in txn_date order (ORDER BY txn_date), so the rows dated on or
\* before date are the first rows: their number among rows lo..hi.
RECURSIVE CountThrough(_, _, _, _)
CountThrough(rows, lo, hi, date) ==
    IF lo > hi THEN 0
    ELSE IF rows[hi].txn_date <= date THEN hi - lo + 1
    ELSE IF rows[lo].txn_date > date THEN 0
    ELSE CountThrough(rows, lo, (lo + hi) \div 2, date)
         + CountThrough(rows, (lo + hi) \div 2 + 1, hi, date)
\* The sums of the signed amounts of the first 1, 2, ... of the rows lo..hi.
RECURSIVE SignedSums(_, _, _)
SignedSums(rows, lo, hi) ==
    IF lo > hi THEN <<>>
    ELSE IF lo = hi THEN <<SignedAmount(rows[lo])>>
    ELSE With(<<SignedSums(rows, lo, (lo + hi) \div 2),
                SignedSums(rows, (lo + hi) \div 2 + 1, hi)>>,
              LAMBDA h : h[1] \o [k \in DOMAIN h[2] |-> h[2][k] + h[1][Len(h[1])]])
\* The balance in the smallest unit after the transactions among rows dated
\* on or before date; sums holds the sums of the first rows.
BalanceThrough(rows, sums, date) ==
    LET n == CountThrough(rows, 1, Len(rows), date)
    IN account[1].starting_balance + (IF n = 0 THEN 0 ELSE sums[n])

EndOfDay(day) == Timestamp(day, TicksPerDay - 1)
\* The first calendar day of rows holds exactly an inflow of 10,000 and an
\* outflow of 4,000.
FirstDayInflowAndOutflow(rows) ==
    /\ Len(rows) >= 2
    /\ rows[1].amount = 10000 /\ rows[1].direction = "inflow"
    /\ rows[2].amount = 4000 /\ rows[2].direction = "outflow"
    /\ DayOf(rows[2].txn_date) = DayOf(rows[1].txn_date)
    /\ Len(rows) >= 3 => DayOf(rows[3].txn_date) # DayOf(rows[1].txn_date)

\* C18: the transactions of one calendar day are summed into one net delta, so
\* the first point of a returned series is the starting balance plus the net
\* signed amount of the first day of the selected window, converted; with a
\* starting balance of 50,000,000 (NGN, two decimals) and a first day of an
\* inflow of 10,000 and an outflow of 4,000 the first point is 500,060.00.
C18_FirstPointNetOfFirstDay ==
    Returned
    => With(SelectedWindow,
            LAMBDA rows :
               With(SignedSums(rows, 1, Len(rows)),
                    LAMBDA sums :
                       /\ Series[1].y
                            = FromSmallestUnit(
                                 BalanceThrough(rows, sums, EndOfDay(DayOf(rows[1].txn_date))),
                                 account[1].currency)
                       /\ (/\ account[1] = [starting_balance |-> 50000000, currency |-> "NGN"]
                           /\ FirstDayInflowAndOutflow(rows))
                          => Series[1].y = [whole |-> 500060, frac |-> 0, places |-> 2]))

\* ---- C19 ----
\* The points of the series are in strictly increasing order of calendar day.
StrictlyIncreasingDays(points) ==
    \A j \in 1 .. (Len(points) - 1) : DayOf(points[j].ds) < DayOf(points[j + 1].ds)

\* C19: a returned series has strictly increasing dates and exactly one point
\* for each calendar day on which the selected window has a transaction:
\* the transactions of one day give one point, and a day without a transaction
\* gives none.
C19_OnePointPerCalendarDay ==
    Returned
    => /\ StrictlyIncreasingDays(Series)
       /\ DatesOf(Series) = WindowDays(LastFetched)
       /\ Len(Series) = Cardinality(WindowDays(LastFetched))

\* The same on the timestamps themselves: strictly increasing ds values, one
\* point for each distinct txn_date value of the selected window.
OnePointPerTimestamp ==
    Returned
    => /\ \A j \in 1 .. (Len(Series) - 1) : Series[j].ds < Series[j + 1].ds
       /\ {Series[j].ds : j \in DOMAIN Series}
            = {SelectedWindow[k].txn_date : k \in DOMAIN SelectedWindow}

\* ---- C20 ----
\* The net signed amount of the transactions of one calendar day among rows.
NetOfDay(rows, sums, day) ==
    BalanceThrough(rows, sums, EndOfDay(day)) - BalanceThrough(rows, sums, EndOfDay(day - 1))
\* The calendar days with transactions whose signed amounts cancel.
ZeroNetDays(rows, sums) ==
    {day \in {DayOf(rows[k].txn_date) : k \in DOMAIN rows} : NetOfDay(rows, sums, day) = 0}
\* The entries of a grouped window or of a series that belong to a calendar day.
EntriesOf(points, day) == {j \in DOMAIN points : DayOf(points[j].ds) = day}

\* C20: a calendar day whose inflows and outflows cancel is one entry of
\* daily_cashflow, the sequence whose length is compared with
\* MIN_DAYS_REQUIRED, and one point of a returned series, with the balance of
\* the preceding point (the starting balance for the first point).
C20_ZeroNetDayCounts ==
    bpc \in {"check", "returned"}
    => With(SelectedWindow,
            LAMBDA rows :
               With(SignedSums(rows, 1, Len(rows)),
                    LAMBDA sums :
                       \A day \in ZeroNetDays(rows, sums) :
                          /\ Cardinality(EntriesOf(daily_cashflow, day)) = 1
                          /\ Returned
                             => /\ Cardinality(EntriesOf(Series, day)) = 1
                                /\ \A j \in EntriesOf(Series, day) :
                                      Series[j].y
                                        = IF j = 1
                                          THEN FromSmallestUnit(account[1].starting_balance,
                                                                account[1].currency)
                                          ELSE Series[j - 1].y))

\* ---- C21 ----
\* C21: a build fetches the account metadata exactly once and before any
\* transaction fetch; when the account has no row the build fails with the
\* repository's not-found error (ValueError) and fetches no transactions.
C21_MetadataOnceAndFirst ==
    /\ [](/\ bpc # "idle" => meta_fetches = 1
          /\ fetches # <<>> => meta_fetches = 1 /\ meta = account /\ account # None
          /\ (bpc # "idle" /\ account = None)
             => /\ bpc = "raised"
                /\ bret.outcome = "ValueError"
                /\ fetches = <<>>)
    /\ [][/\ meta_fetches' > meta_fetches
             => /\ fetches = <<>> /\ fetches' = <<>>
                /\ meta_fetches = 0
          /\ fetches' # fetches /\ fetches' # <<>>
             => UNCHANGED <<meta, meta_fetches>>]_vars

\* The build of an account that has transactions but no row in the accounts
\* table has failed with the not-found error after one metadata fetch.
C21_Witness ==
    /\ bpc = "raised"
    /\ account = None
    /\ bret.outcome = "ValueError"
    /\ meta_fetches = 1
    /\ fetches = <<>>
    /\ ledger # <<>>

\* ---- C22 ----
\* The distinct txn_date values of the account within the widest window: the
\* points that the longest series of the account can have.
WidestPoints ==
    {ledger[i].txn_date :
        i \in {k \in DOMAIN ledger :
                 ledger[k].txn_date >= Now - Timestamp(YearDays * MAX_LOOKBACK_YEARS, Midnight)}}
\* train_model fits a model in this step: the call goes on to save it.
Fits(t) == pc[t] = "training" /\ pc'[t] = "save"

\* C22: the forecaster's train_model fails with InsufficientDataError whenever
\* the series of the account has fewer than MIN_DAYS_REQUIRED points, and no
\* model is ever fit on a series shorter than MIN_DAYS_REQUIRED: a build whose
\* grouped window is short raises instead of returning, the error reaches the
\* caller of train_model with cache and store unchanged, and a fit happens
\* only on a returned series of at least MIN_DAYS_REQUIRED points.
C22_NeverFitOnShortSeries ==
    /\ [](/\ Returned => Len(Series) >= MIN_DAYS_REQUIRED
          /\ (LoopCompleted /\ Cardinality(WidestPoints) < MIN_DAYS_REQUIRED)
             => bret.outcome = "InsufficientDataError")
    /\ [][/\ (bpc = "check" /\ Len(daily_cashflow) < MIN_DAYS_REQUIRED /\ bpc' # bpc)
             => /\ bpc' = "raised"
                /\ bret'.outcome = "InsufficientDataError"
          /\ (bpc = "raised" /\ bret.outcome = "InsufficientDataError" /\ bpc' # bpc)
             => /\ \E t \in Threads :
                      /\ pc[t] = "training" /\ pc'[t] = "done"
                      /\ ret'[t] = [outcome |-> "InsufficientDataError", value |-> None]
                /\ UNCHANGED <<cache, store>>
          /\ \A t \in Threads :
                Fits(t) => (Returned /\ Len(Series) >= MIN_DAYS_REQUIRED)]_vars

\* train_model has failed with InsufficientDataError for an account whose
\* widest window holds 89 points.
C22_Witness ==
    /\ \E t \in Threads :
          /\ pc[t] = "done"
          /\ ret[t] = [outcome |-> "InsufficientDataError", value |-> None]
    /\ Cardinality(WidestPoints) = MIN_DAYS_REQUIRED - 1
    /\ cache = EmptyMap

\* ---- C23 ----
\* forecast_balance has returned its rows.
Forecast == fn_ret.value[1]
ForecastReturned == fn_call.fn = "forecast_balance" /\ fn_ret.outcome = "returned"
\* The last date of the series the model was trained on.
LastTrained == fn_call.model.history_dates[Len(fn_call.model.history_dates)]

\* C23: for every positive days_ahead, forecast_balance returns exactly
\* days_ahead rows, and the date of the k-th row is k days after the last date
\* of the series the model was trained on: consecutive calendar days that start
\* the day after it.
C23_ForecastHorizon ==
    (ForecastReturned /\ fn_call.days_ahead > 0)
    => /\ Len(Forecast) = fn_call.days_ahead
       /\ \A k \in DOMAIN Forecast :
             /\ Forecast[k].ds = LastTrained + k * TicksPerDay
             /\ DayOf(Forecast[k].ds) = DayOf(LastTrained) + k

\* A forecast of the longest horizon from a model trained on a series of
\* several dates with a gap.
C23_Witness ==
    /\ ForecastReturned
    /\ fn_call.days_ahead = MaxDaysAhead
    /\ Len(fn_call.model.history_dates) >= 2
    /\ DayOf(LastTrained) > DayOf(fn_call.model.history_dates[1]) + 1
    /\ Len(Forecast) = MaxDaysAhead

\* ---- C24 ----
\* The amount has at most as many decimal places as the currency declares.
WithinPrecision(amount, currency) ==
    amount % Pow10(InputPlaces - CURRENCY_DECIMALS[currency]) = 0
ToSmallestReturned == fn_call.fn = "to_smallest_unit" /\ fn_ret.outcome = "returned"
FromSmallestReturned == fn_call.fn = "from_smallest_unit" /\ fn_ret.outcome = "returned"

\* C24: for every supported currency c and every amount x with at most
\* CURRENCY_DECIMALS[c] decimal places, from_smallest_unit applied to the
\* result of to_smallest_unit(x, c) gives x again.
C24_RoundTrip ==
    (ToSmallestReturned /\ WithinPrecision(fn_call.amount, fn_call.currency))
    => AmountOf(FromSmallestUnit(fn_ret.value[1], fn_call.currency)) = fn_call.amount

\* 2 JPY (no decimals) or -1.23 NGN (two decimals) has been converted.
C24_Witness ==
    /\ ToSmallestReturned
    /\ \/ fn_call.currency = "JPY" /\ fn_call.amount = Decimal(2, 0) /\ fn_ret.value[1] = 2
       \/ fn_call.currency = "NGN" /\ fn_call.amount = -Decimal(1, 230)
          /\ fn_ret.value[1] = -123

\* ---- C25 ----
\* The product amount * factor of the call lies exactly halfway between two
\* smallest-unit values.
TieCall ==
    /\ fn_call.fn = "to_smallest_unit"
    /\ Supported(fn_call.currency)
    /\ Halfway(fn_call.amount * Pow10(CURRENCY_DECIMALS[fn_call.currency]), Pow10(InputPlaces))

\* C25: to_smallest_unit rounds half away from zero: an amount exactly halfway
\* between two smallest-unit values gives the one of larger magnitude, for
\* positive and negative amounts; 0.125 NGN gives 13, -0.125 NGN gives -13 and
\* 2.5 JPY gives 3.
C25_RoundHalfAwayFromZero ==
    (TieCall /\ fn_ret.outcome = "returned")
    => /\ fn_ret.value[1]
            = RoundFloat_HalfAwayFromZero(
                 fn_call.amount * Pow10(CURRENCY_DECIMALS[fn_call.currency]),
                 Pow10(InputPlaces))
       /\ (fn_call.amount = Decimal(0, 125) /\ fn_call.currency = "NGN")
          => fn_ret.value[1] = 13
       /\ (fn_call.amount = -Decimal(0, 125) /\ fn_call.currency = "NGN")
          => fn_ret.value[1] = -13
       /\ (fn_call.amount = Decimal(2, 500) /\ fn_call.currency = "JPY")
          => fn_ret.value[1] = 3

\* ---- C26 ----
\* A call of one of the two conversions.
ConversionCall == fn_call.fn \in {"to_smallest_unit", "from_smallest_unit"}

\* C26: for every amount, to_smallest_unit and from_smallest_unit called with
\* a currency code that is not a key of CURRENCY_DECIMALS end with the
\* unsupported-currency error (ValueError) and return no value; with a key
\* they return a value.
C26_UnsupportedCurrencyFails ==
    /\ [](ConversionCall /\ fn_ret # NoRet
          => IF fn_call.currency \in DOMAIN CURRENCY_DECIMALS
             THEN fn_ret.outcome = "returned" /\ fn_ret.value # None
             ELSE fn_ret = [outcome |-> "ValueError", value |-> None])
    /\ []((ConversionCall /\ fn_ret = NoRet) => ENABLED NextFn)

\* from_smallest_unit has failed for a code that differs from a key by case.
C26_Witness ==
    /\ fn_call.fn = "from_smallest_unit"
    /\ fn_call.currency = "ngn"
    /\ fn_call.amount_int = 0
    /\ fn_ret = [outcome |-> "ValueError", value |-> None]

\* ---- C27 ----
\* Thread t is in a categorizer retraining whose df is missing or lacks a
\* required column.
InvalidTraining(t) ==
    /\ IsRetrain(t)
    /\ args[t].model_type = "categorizer"
    /\ \/ args[t].df = "absent"
       \/ ~({"description", "category"} \subseteq DfColumns(args[t].df))

\* C27: categorizer training rejects invalid training data before fitting.
\* train_and_save_model('categorizer') without df fails with ValueError without
\* calling train_model, and with a frame that lacks description or category
\* train_model fails with ValueError; in both cases the call holds no model,
\* never reaches the save, and no step of it changes the store or the cache.
C27_InvalidTrainingRejected ==
    /\ [](\A t \in Threads :
             InvalidTraining(t)
             => /\ pc[t] \in {"training", "done"}
                /\ local[t].model = None
                /\ pc[t] = "done" => ret[t] = [outcome |-> "ValueError", value |-> None]
                /\ args[t].df = "absent"
                   => /\ pc[t] = "done"
                      /\ Count(log[t], "train") = 0)
    /\ [][\A t \in Threads :
             (InvalidTraining(t)' /\ Moves(t)) => UNCHANGED <<cache, store>>]_vars

\* A retraining on a frame without the category column has failed while the
\* store held an earlier categorizer artifact, which is still there.
C27_Witness ==
    \E t \in Threads :
       /\ InvalidTraining(t)
       /\ args[t].df = "bad_columns"
       /\ pc[t] = "done"
       /\ ret[t] = [outcome |-> "ValueError", value |-> None]
       /\ Count(log[t], "train") = 1
       /\ Holds(store, "categorizer.joblib", Preexisting("categorizer.joblib"))

\* rule_based_category has been called and has returned.
RuleReturned ==
    /\ fn_call.fn = "rule_based_category"
    /\ fn_ret.outcome = "returned"
\* text without the whitespace before its first and after its last character
\* that is not whitespace, in lower case.
Trimmed(text) ==
    LET inked == {i \in DOMAIN text : text[i] \notin Whitespace}
    IN  IF inked = {}
        THEN <<>>
        ELSE SubSeq(text,
                    CHOOSE i \in inked : \A j \in inked : i <= j,
                    CHOOSE i \in inked : \A j \in inked : j <= i)
Normalized(text) == Lower(Trimmed(text))
\* The description is None, empty, or normalizes to a placeholder value.
NoDescription(description) ==
    \/ description = NoneCell
    \/ /\ description.kind = "str"
       /\ \/ description.text = <<>>
          \/ Normalized(description.text) \in EMPTY_DESCRIPTIONS
\* Rule i of KEYWORD_RULES has a keyword contained in desc.
RuleMatches(i, desc) ==
    \E keyword \in KEYWORD_RULES[i].keywords : KeywordIn(keyword, desc)

PredictReturned ==
    /\ fn_call.fn = "predict"
    /\ fn_ret.outcome = "returned"
\* What rule_based_category returns for row i of the input frame.
RuleOf(i) ==
    RuleBasedCategory(fn_call.df[i].description, fn_call.df[i].direction)
\* The rows of the call for which the model was consulted, one entry a time.
Consulted == fn_ret.value[1].consulted
ConsultedFor(i) == \E k \in DOMAIN Consulted : Consulted[k] = i

\* C29: in categorizer.predict rules take priority over the model: for every
\* row where rule_based_category returns a category, that category is the
\* row's output and the model is not consulted for that row; the model's
\* prediction is used exactly for the rows where rule_based_category returns
\* None.
C29_RulesTakePriority ==
    PredictReturned =>
        /\ \A i \in DOMAIN fn_call.df :
              IF RuleOf(i) # None
              THEN /\ fn_ret.value[1].frame[i].category = RuleOf(i)[1]
                   /\ ~ConsultedFor(i)
              ELSE /\ fn_ret.value[1].frame[i].category =
                          PipelinePredict(fn_call.model,
                                          fn_call.df[i].description.text)
                   /\ ConsultedFor(i)
        /\ Len(Consulted) =
               Cardinality({i \in DOMAIN fn_call.df : RuleOf(i) = None})
\* A frame is returned in which one row has the category of a rule where the
\* model would have given another label, and another row the model's label.
C29_Witness ==
    /\ PredictReturned
    /\ \E i, j \in DOMAIN fn_call.df :
          /\ RuleOf(i) # None
          /\ RuleOf(i)[1] # PipelinePredict(fn_call.model,
                                            CellStr(fn_call.df[i].description))
          /\ fn_ret.value[1].frame[i].category = RuleOf(i)[1]
          /\ RuleOf(j) = None
          /\ ConsultedFor(j)

\* categorizer.predict has been called and has ended, by return or raise.
PredictEnded ==
    /\ fn_call.fn = "predict"
    /\ fn_ret # NoRet
\* The labels a row can be given: the categories of the rules and the labels
\* of the pipeline.
Labels ==
    {KEYWORD_RULES[i].category : i \in DOMAIN KEYWORD_RULES}
        \cup {PipelinePredict(model, text) : model \in Pipelines, text \in Texts}

\* C28: categorizer.predict returns one category per input row, in input
\* order, with no row left without a category, and it does not modify the
\* caller's input frame.
C28_OneCategoryPerRow ==
    PredictEnded =>
        /\ fn_ret.outcome = "returned"
        /\ Len(fn_ret.value[1].frame) = Len(fn_call.df)
        /\ \A i \in DOMAIN fn_call.df :
              /\ fn_ret.value[1].frame[i].description = fn_call.df[i].description
              /\ fn_ret.value[1].frame[i].direction = fn_call.df[i].direction
              /\ fn_ret.value[1].frame[i].category \in Labels
        /\ fn_ret.value[1].caller_df = fn_call.df

\* rule_based_category has returned for the text description and direction.
RuleCalledWith(description, direction) ==
    /\ RuleReturned
    /\ fn_call.description = description
    /\ fn_call.direction = direction
StaffSalaryForMay ==
    StrCell(<<"S", "t", "a", "f", "f", " ", "s", "a", "l", "a", "r", "y",
              " ", "f", "o", "r", " ", "M", "a", "y">>)
PaidOfficeRent ==
    StrCell(<<"P", "a", "i", "d", " ", "o", "f", "f", "i", "c", "e", " ",
              "r", "e", "n", "t">>)
FuelPurchaseAtStation ==
    StrCell(<<"F", "u", "e", "l", " ", "p", "u", "r", "c", "h", "a", "s",
              "e", " ", "a", "t", " ", "s", "t", "a", "t", "i", "o", "n">>)
InternetSubscriptionPayment ==
    StrCell(<<"I", "n", "t", "e", "r", "n", "e", "t", " ", "s", "u", "b",
              "s", "c", "r", "i", "p", "t", "i", "o", "n", " ", "p", "a",
              "y", "m", "e", "n", "t">>)
\* The cases of the claim, with the value each returns in expected[k].
RuleCases(expected) ==
    /\ RuleCalledWith(StrCell(<<>>), "inflow") => fn_ret.value[1] = expected[1]
    /\ RuleCalledWith(StrCell(<<"N", "/", "A">>), "inflow")
           => fn_ret.value[1] = expected[1]
    /\ RuleCalledWith(StrCell(<<"n", "i", "l">>), "outflow")
           => fn_ret.value[1] = expected[2]
    /\ RuleCalledWith(NoneCell, "outflow") => fn_ret.value[1] = expected[2]
    /\ RuleCalledWith(StaffSalaryForMay, "outflow") => fn_ret.value[1] = expected[3]
    /\ RuleCalledWith(PaidOfficeRent, "outflow") => fn_ret.value[1] = expected[4]
    /\ RuleCalledWith(InternetSubscriptionPayment, "outflow")
           => fn_ret.value[1] = expected[5]
    /\ RuleCalledWith(FuelPurchaseAtStation, "outflow")
           => fn_ret.value[1] = expected[6]

RetrainSucceeds(t, k) ==
    /\ IsRetrain(t)
    /\ local[t].cache_key = k
    /\ pc[t] = "cache_put"
    /\ ret'[t].outcome = "Retrained"
\* No step removes a key from the cache.
NoEviction == DOMAIN cache \subseteq DOMAIN cache'
\* A step that changes the artifact cached at k is the successful end of a
\* train_and_save_model call for k.
ReplacedOnlyByRetrain ==
    \A k \in DOMAIN cache :
        (k \in DOMAIN cache' /\ cache'[k] # cache[k])
            => \E t \in Threads : RetrainSucceeds(t, k)

\* C32: the memory cache never evicts: once a key is present in the cache it
\* stays present after every later get_model and train_and_save_model call,
\* and the artifact cached at a key changes only through a successful
\* train_and_save_model for that same key.
C32_CacheNeverEvicts == [][NoEviction /\ ReplacedOnlyByRetrain]_vars

\* The file of each storage key under MODEL_DIR.
PathOfKey(k) ==
    IF k = "categorizer:global"
    THEN ModelPath("categorizer", None)
    ELSE CHOOSE p \in Paths :
            \E a \in AccountIds :
                k = CacheKey("forecaster", Some(a)) /\ p = ModelPath("forecaster", Some(a))
\* No call is running: every call made so far has returned or raised.
Quiescent == \A t \in Threads : ~InFlight(t)
\* Every cached key is stored, with the same artifact.
CacheMirrorsStore == \A k \in DOMAIN cache : Holds(store, PathOfKey(k), cache[k])

\* C33: in any sequential execution of get_model and train_and_save_model
\* that starts with an empty cache and has no external changes to the store,
\* every key present in the memory cache is also present in the durable store
\* and both hold the same artifact (between calls).
C33_CacheMirrorsStore == Quiescent => CacheMirrorsStore

\* A call on key k has completed with a model.
CompletedOn(t, k) ==
    /\ pc[t] = "done"
    /\ local[t].cache_key = k
    /\ ret[t].value # None
\* Thread t's get_model call on key k was issued when no other call was
\* running, found the key cached, and has returned.
GetAfterwards(t, k) ==
    /\ pc[t] = "done"
    /\ IsGet(t)
    /\ local[t].cache_key = k
    /\ start[t].cached
    /\ \A u \in Threads \ {t} : pc[u] = "idle"

\* C34: under any interleaving of concurrent get_model and
\* train_and_save_model calls on the same key, once all in-flight calls have
\* completed the memory cache and the durable store hold the same artifact at
\* that key, and every get_model call issued afterwards returns that artifact.
\* Stated for the executions in which no save failed: every file is whole.
C34_ConvergesAfterConcurrentCalls ==
    \A k \in CacheKeys :
        /\ (/\ Quiescent
            /\ \A p \in DOMAIN store : IsArtifact(store[p])
            /\ \E t \in Threads : CompletedOn(t, k))
               => /\ k \in DOMAIN cache
                  /\ Holds(store, PathOfKey(k), cache[k])
        /\ \A t \in Threads :
               (GetAfterwards(t, k) /\ \A p \in DOMAIN store : IsArtifact(store[p]))
                   => /\ ret[t].value = Some(cache[k])
                      /\ Holds(store, PathOfKey(k), cache[k])

\* Every cache assignment in t's log comes after a dump to the store.
DumpBeforeEachCacheSet(t) ==
    \A j \in DOMAIN log[t] :
        log[t][j] = "cache_set" => \E i \in 1 .. (j - 1) : log[t][i] = "store_dump"
\* Thread t's call has trained a model (auto-training or explicit retraining).
HasTrained(t) == Count(log[t], "train") > 0
\* The save of t's call fails in this step.
SaveFails(t) ==
    /\ pc[t] \in {"save", "saving"}
    /\ ret'[t].outcome = "OSError"

\* C35: persisting precedes caching: in get_model auto-training and in
\* train_and_save_model the artifact is written to the durable store before
\* it is inserted in the memory cache, and when the save fails the exception
\* propagates to the caller and the cache is not updated (a previously cached
\* artifact for the key stays, no new entry appears).
C35_PersistBeforeCache ==
    [][/\ \A t \in Threads :
              (HasTrained(t) /\ pc[t] = "cache_put")
                  => /\ DumpBeforeEachCacheSet(t)'
                     /\ Holds(store, local[t].path, local[t].model[1])
       /\ \A t \in Threads :
              SaveFails(t)
                  => /\ cache' = cache
                     /\ pc'[t] = "done"
                     /\ Count(log[t], "cache_set") = 0
                     /\ log'[t] = log[t]]_vars
\* A save has failed for a key that was cached when the call began, and the
\* cache still has the key.
C35_Witness ==
    \E t \in Threads :
        /\ pc[t] = "done"
        /\ ret[t].outcome = "OSError"
        /\ start[t].cached
        /\ local[t].cache_key \in DOMAIN cache

\* What map m holds at key k: the value, or None where it has no entry.
EntryAt(m, k) == IF k \in DOMAIN m THEN Some(m[k]) ELSE None
\* The keys whose cache entry the step adds, replaces or removes, and the
\* paths whose file it creates, rewrites or deletes.
CacheKeysTouched ==
    {k \in DOMAIN cache \cup DOMAIN cache' : EntryAt(cache, k) # EntryAt(cache', k)}
PathsTouched ==
    {p \in DOMAIN store \cup DOMAIN store' : EntryAt(store, p) # EntryAt(store', p)}

\* C36: a get_model or train_and_save_model call for one key never adds,
\* replaces or removes the cache entry or the durable artifact of any other
\* key, whether it succeeds or fails.
C36_OtherKeysUntouched ==
    [][\A t \in Threads :
          Moves(t) =>
              /\ \A k \in CacheKeysTouched : k = local[t].cache_key
              /\ \A p \in PathsTouched :
                    /\ local[t].cache_key \in CacheKeys
                    /\ p = PathOfKey(local[t].cache_key)]_vars
\* A call for forecaster:a1 has trained, saved and cached its model while the
\* cache and the store hold the artifact of another key.
C36_Witness ==
    \E t \in Threads :
        /\ pc[t] = "done"
        /\ local[t].cache_key = "forecaster:a1"
        /\ ret[t].outcome \in {"Trained", "Retrained"}
        /\ \E k \in DOMAIN cache \ {"forecaster:a1"} :
              Holds(store, PathOfKey(k), cache[k])

\* The totals of the amounts tagged direction among the first 1, 2, ... of the
\* rows lo..hi.
RECURSIVE AmountSums(_, _, _, _)
AmountSums(rows, lo, hi, direction) ==
    IF lo > hi THEN <<>>
    ELSE IF lo = hi
    THEN <<IF rows[lo].direction = direction THEN rows[lo].amount ELSE 0>>
    ELSE With(<<AmountSums(rows, lo, (lo + hi) \div 2, direction),
                AmountSums(rows, (lo + hi) \div 2 + 1, hi, direction)>>,
              LAMBDA h : h[1] \o [k \in DOMAIN h[2] |-> h[2][k] + h[1][Len(h[1])]])
\* The total of sums (running totals of a date-ordered sequence dated by
\* rows) over the entries of calendar day day.
TotalOfDay(rows, sums, day) ==
    LET upto(d) ==
            LET n == CountThrough(rows, 1, Len(rows), EndOfDay(d))
            IN  IF n = 0 THEN 0 ELSE sums[n]
    IN  upto(day) - upto(day - 1)
\* The entries of the grouped window, as rows dated by their date.
DatedEntries == [j \in DOMAIN daily_cashflow |-> [txn_date |-> daily_cashflow[j].ds]]
\* The window txns has just been grouped into daily_cashflow: the build is
\* back at the loop test or at the check after the loop.
Grouped == bpc \in {"loop", "check"} /\ txns # <<>>

\* C37: the builder synthesizes the sign of each transaction from its
\* direction tag: a transaction tagged inflow contributes +amount and a
\* transaction tagged outflow contributes -amount to its day's net delta, for
\* every unsigned stored amount: the net delta of each day of the window is the
\* total of the day's inflow amounts minus the total of its outflow amounts.
C37_SignFromDirection ==
    Grouped =>
        /\ \A k \in DOMAIN txns :
              txns[k].amount >= 0 /\ txns[k].direction \in {"inflow", "outflow"}
        /\ With(<<AmountSums(txns, 1, Len(txns), "inflow"),
                  AmountSums(txns, 1, Len(txns), "outflow"),
                  CumSum(daily_cashflow, 1, Len(daily_cashflow)),
                  DatedEntries>>,
                LAMBDA s :
                    \A day \in {DayOf(txns[k].txn_date) : k \in DOMAIN txns} :
                        TotalOfDay(s[4], s[3], day)
                            = TotalOfDay(txns, s[1], day) - TotalOfDay(txns, s[2], day))
\* A window has been grouped whose first day has an inflow and an outflow of
\* another amount.
C37_Witness ==
    /\ Grouped
    /\ \E i, k \in 1 .. 2 :
          /\ txns[i].direction = "inflow"
          /\ txns[k].direction = "outflow"
          /\ DayOf(txns[i].txn_date) = DayOf(txns[k].txn_date)
          /\ txns[i].amount # txns[k].amount

\* A call of a function wrapped by retry with max_attempts >= 1 has ended.
RetryEnded ==
    /\ fn_call.fn = "retry"
    /\ fn_call.max_attempts >= 1
    /\ fn_ret # NoRet
RECURSIVE Power(_, _)
Power(b, e) == IF e = 0 THEN 1 ELSE b * Power(b, e - 1)
\* The invocation of func that ends the call: the first one that succeeds,
\* that raises an exception not of the configured types, or that is the
\* max_attempts-th.
FinalInvocation ==
    CHOOSE i \in 1 .. fn_call.max_attempts :
        /\ \/ fn_call.script[i] = "ok"
           \/ ~IsInstance(fn_call.script[i], fn_call.exceptions)
           \/ i = fn_call.max_attempts
        /\ \A j \in 1 .. (i - 1) :
              /\ fn_call.script[j] # "ok"
              /\ IsInstance(fn_call.script[j], fn_call.exceptions)

\* C38: a function wrapped by retry(max_attempts=n, ...) with n >= 1 is
\* invoked at most n times per call: the wrapper returns the result of the
\* first invocation that succeeds without invoking again, re-raises the last
\* exception after the n-th consecutive failure, waits delay, delay*backoff,
\* delay*backoff^2, ... between consecutive attempts with no wait after the
\* final failure, and lets an exception that is not in the configured
\* exception types propagate at once without another attempt.
C38_RetryAtMostN ==
    RetryEnded =>
        LET r == fn_ret.value[1]
            last == FinalInvocation
        IN  /\ r.calls <= fn_call.max_attempts
            /\ r.calls = last
            /\ IF fn_call.script[last] = "ok"
               THEN r.outcome = "returned" /\ r.value = Some(ResultOf(last))
               ELSE /\ r.outcome = "raised"
                    /\ r.value = Some(RaisedBy(fn_call.script[last], last))
            /\ r.sleeps = [j \in 1 .. (last - 1) |->
                              fn_call.delay * Power(fn_call.backoff, j - 1)]
\* Three attempts fail with configured exceptions: the third exception is
\* raised after two waits, the second twice the first.
C38_Witness ==
    /\ RetryEnded
    /\ fn_call.max_attempts = 3
    /\ fn_call.backoff = 2
    /\ fn_ret.outcome = "raised"
    /\ fn_ret.value[1].calls = 3
    /\ fn_ret.value[1].value = Some(RaisedBy("OSError", 3))
    /\ fn_ret.value[1].sleeps = <<fn_call.delay, 2 * fn_call.delay>>

\* A call of the task ingest_transactions has ended.
IngestEnded ==
    /\ fn_call.fn = "ingest_transactions"
    /\ fn_ret # NoRet

\* C39: the scheduled task ingest_transactions invokes run_ingestion exactly
\* once per call, also when run_ingestion raises: the task catches the failure
\* itself, so the surrounding retry decorator makes no second attempt and the
\* task call never raises.
C39_IngestRunsOnce ==
    IngestEnded =>
        /\ fn_ret.value[1].calls = 1
        /\ fn_ret.value[1].sleeps = <<>>
        /\ fn_ret.outcome = "returned"
\* run_ingestion has raised and the task call has returned.
C39_Witness ==
    /\ IngestEnded
    /\ fn_call.run_script[1] = "OSError"
    /\ fn_ret.outcome = "returned"
    /\ fn_ret.value[1].calls = 1

\* The second load of the batch has ended.
SecondLoadEnded ==
    /\ fn_call.fn = "load_transactions"
    /\ fn_call.load = 2
    /\ fn_ret # NoRet
\* No two of the rows have the same transaction_id.
OneRowPerId(rows) ==
    \A i, j \in DOMAIN rows : rows[i].transaction_id = rows[j].transaction_id => i = j

\* C40: ingestion is idempotent: loading a batch of transactions a second
\* time leaves the transactions table with the same rows as after the first
\* load (one row per transaction_id, no duplicates, no error surfaced to the
\* caller), and the processed CSV backup keeps exactly one row per
\* transaction_id.  (fn_call.table is what the first load left; an error of
\* the database itself, db_fails, is surfaced.)
C40_IngestionIdempotent ==
    SecondLoadEnded =>
        LET after == fn_ret.value[1]
        IN  /\ after.table = fn_call.table
            /\ \A r, s \in after.table : r.transaction_id = s.transaction_id => r = s
            /\ ~fn_call.db_fails
               => /\ after.outcome = "returned"
                  /\ OneRowPerId(after.csv[1])
                  /\ \A i \in DOMAIN fn_call.df :
                        \E j \in DOMAIN after.csv[1] :
                            after.csv[1][j].transaction_id = fn_call.df[i].transaction_id
\* A batch of two new transactions has been loaded twice: the table holds its
\* two rows, and the CSV holds these two rows only.
C40_Witness ==
    /\ SecondLoadEnded
    /\ fn_ret.outcome = "returned"
    /\ Len(fn_call.df) = 2
    /\ fn_call.df[1].transaction_id # fn_call.df[2].transaction_id
    /\ fn_ret.value[1].table = {fn_call.df[1], fn_call.df[2]}
    /\ fn_ret.value[1].csv = Some(fn_call.df)

====
